---- MODULE Spec2Model ----
(***************************************************************************)
(* limpid: comparison of two builds (baseline, current) and the rendering  *)
(* of the comparison report, src/limpid/src/report.rs.                     *)
(*                                                                         *)
(* Conventions of the model                                                *)
(*  - Names (crates, symbols, LLVM functions) are naturals standing for    *)
(*    the rank of the name in lexicographic order, so that `<` on them is  *)
(*    the order of BTreeSet<&str> / BTreeMap<&str, _>.                     *)
(*  - Option<T> is a sequence of length 0 (None) or 1 (Some).              *)
(*  - Strings produced by the formatters are sequences of one-character    *)
(*    strings.                                                             *)
(*  - Byte sizes and line counts stay far below 2^63, so `x as isize` is   *)
(*    value preserving and the isize subtraction does not wrap.            *)
(*  - wall_duration is kept in milliseconds.                               *)
(***************************************************************************)
EXTENDS Integers, Sequences, FiniteSets, TLC

VARIABLES baseline, current, pc, out

\* extract_crate_from_function(func_name): its argument and its return value
VARIABLES func_name, attributed

attr_vars == <<func_name, attributed>>

\* main(): the command line, the environment the run finds, the position in
\* main, the parsed flags, the two build results, the temporary directories
\* and worktrees that exist, what was printed, the markdown file, the exit
\* code, and the output of an earlier run on the same inputs
VARIABLES args, env, mpc, markdown_mode, markdown_output_path,
          current_result, main_result, fs, stdout, md_file, exit_code, first_run

main_vars == <<args, env, mpc, markdown_mode, markdown_output_path,
               current_result, main_result, fs, stdout, md_file, exit_code, first_run>>

\* one call of a function of the program: which one, its argument and what
\* it returned
VARIABLES callee, call_arg, call_ret

call_vars == <<callee, call_arg, call_ret>>

\* the worktree functions of git.rs: the function running, the position in
\* it, the directories that exist, what the file system and git will answer,
\* the commands run so far, and the value returned
VARIABLES git_op, git_pc, git_fs, git_env, git_log, git_ret

git_vars == <<git_op, git_pc, git_fs, git_env, git_log, git_ret>>

vars == <<baseline, current, pc, out, attr_vars, main_vars, call_vars, git_vars>>

(***************************************************************************)
(* Option<T>                                                               *)
(***************************************************************************)
None == <<>>

Some(v) == <<v>>

is_some(o) == Len(o) = 1

is_none(o) == Len(o) = 0

unwrap_or(o, d) == IF Len(o) = 1 THEN o[1] ELSE d

\* BTreeMap::get
MapGet(m, k) == IF k \in DOMAIN m THEN Some(m[k]) ELSE None

abs(n) == IF n < 0 THEN -n ELSE n

(***************************************************************************)
(* Iteration helpers                                                       *)
(***************************************************************************)
SetMin(S) == CHOOSE x \in S : \A y \in S : x <= y

\* iteration order of a BTreeSet / of the keys of a BTreeMap: ascending
RECURSIVE BTreeIter(_)
BTreeIter(S) ==
    IF S = {} THEN <<>>
    ELSE LET m == SetMin(S) IN <<m>> \o BTreeIter(S \ {m})

\* Iterator::sum over the values of a map
RECURSIVE SumValues(_)
SumValues(f) ==
    IF DOMAIN f = {} THEN 0
    ELSE LET k == SetMin(DOMAIN f)
         IN f[k] + SumValues([x \in DOMAIN f \ {k} |-> f[x]])

\* Iterator::sum over a sequence of numbers
RECURSIVE SumSeq(_)
SumSeq(s) == IF s = <<>> THEN 0 ELSE s[1] + SumSeq(Tail(s))

\* Iterator::take(n) and Iterator::skip(n)
take(s, n) == SubSeq(s, 1, IF Len(s) < n THEN Len(s) ELSE n)

skip(s, n) == SubSeq(s, n + 1, Len(s))

Range(s) == {s[i] : i \in DOMAIN s}

(***************************************************************************)
(* slice::sort_by_key(|e| cmp::Reverse(key(e))): a stable sort, elements   *)
(* with the larger key first, elements with equal keys in their input      *)
(* order.  `keys[i]` is the key of `s[i]`; the sort orders the indices.    *)
(***************************************************************************)
RECURSIVE InsertRev(_, _, _)
InsertRev(sorted, i, keys) ==
    \* index i goes after every index whose key is >= its own
    IF sorted = <<>> THEN <<i>>
    ELSE IF keys[sorted[1]] >= keys[i]
         THEN <<sorted[1]>> \o InsertRev(Tail(sorted), i, keys)
         ELSE <<i>> \o sorted

RECURSIVE SortRevFrom(_, _, _)
SortRevFrom(acc, i, keys) ==
    IF i > Len(keys) THEN acc
    ELSE SortRevFrom(InsertRev(acc, i, keys), i + 1, keys)

\* a sort that is not stable: equal keys end up in reverse input order
RECURSIVE InsertRevUnstable(_, _, _)
InsertRevUnstable(sorted, i, keys) ==
    IF sorted = <<>> THEN <<i>>
    ELSE IF keys[sorted[1]] > keys[i]
         THEN <<sorted[1]>> \o InsertRevUnstable(Tail(sorted), i, keys)
         ELSE <<i>> \o sorted

RECURSIVE SortRevUnstableFrom(_, _, _)
SortRevUnstableFrom(acc, i, keys) ==
    IF i > Len(keys) THEN acc
    ELSE SortRevUnstableFrom(InsertRevUnstable(acc, i, keys), i + 1, keys)

sort_by_key_reverse_unstable(s, keys) ==
    LET perm == SortRevUnstableFrom(<<>>, 1, keys)
    IN [j \in DOMAIN s |-> s[perm[j]]]

sort_by_key_reverse(s, keys) ==
    LET perm == SortRevFrom(<<>>, 1, keys)
    IN [j \in DOMAIN s |-> s[perm[j]]]

(***************************************************************************)
(* Strings and number formatting                                           *)
(***************************************************************************)
DigitChars == <<"0", "1", "2", "3", "4", "5", "6", "7", "8", "9">>

\* u64::to_string / usize::to_string
RECURSIVE to_string(_)
to_string(n) ==
    IF n < 10 THEN <<DigitChars[n + 1]>>
    ELSE to_string(n \div 10) \o <<DigitChars[(n % 10) + 1]>>

RECURSIVE Pow(_, _)
Pow(b, e) == IF e = 0 THEN 1 ELSE b * Pow(b, e - 1)

\* n / d rounded to the nearest integer, ties to even ({:.N} of an exact value)
RoundHalfEven(n, d) ==
    LET q == n \div d
        r == n % d
    IN  IF 2 * r < d THEN q
        ELSE IF 2 * r > d THEN q + 1
        ELSE IF q % 2 = 0 THEN q ELSE q + 1

RECURSIVE ZeroPad(_, _)
ZeroPad(s, width) == IF Len(s) >= width THEN s ELSE ZeroPad(<<"0">> \o s, width)

\* format!("{:.N}", x) of the non-negative x = num / den, N = decimals
FmtFixed(num, den, decimals) ==
    LET scale  == Pow(10, decimals)
        scaled == RoundHalfEven(num * scale, den)
    IN  IF decimals = 0 THEN to_string(scaled)
        ELSE to_string(scaled \div scale) \o <<".">>
             \o ZeroPad(to_string(scaled % scale), decimals)

UNITS == <<"B", "KB", "MB", "GB", "TB">>

\* the while loop of format_bytes: the number of divisions by 1024
RECURSIVE format_bytes_unit(_, _)
format_bytes_unit(bytes, unit) ==
    \* size >= 1024.0 after `unit` divisions  <=>  bytes >= 1024^(unit+1)
    IF bytes >= Pow(1024, unit + 1) /\ unit < Len(UNITS) - 1
    THEN format_bytes_unit(bytes, unit + 1)
    ELSE unit

format_bytes(bytes) ==
    LET unit == format_bytes_unit(bytes, 0)
    IN  IF unit = 0
        THEN to_string(bytes) \o <<" ">> \o <<UNITS[unit + 1]>>
        ELSE FmtFixed(bytes, Pow(1024, unit), 1) \o <<" ">> \o <<UNITS[unit + 1]>>

\* the loop of fmt_thousands over the reversed digits; yields `out`
RECURSIVE fmt_thousands_loop(_, _)
fmt_thousands_loop(rev_chars, i) ==
    IF i >= Len(rev_chars) THEN <<>>
    ELSE (IF i # 0 /\ i % 3 = 0 THEN <<",">> ELSE <<>>)
         \o <<rev_chars[i + 1]>> \o fmt_thousands_loop(rev_chars, i + 1)

Reverse(s) == [i \in DOMAIN s |-> s[Len(s) + 1 - i]]

fmt_thousands(n) ==
    LET negative  == n < 0
        s         == to_string(abs(n))
        outs      == fmt_thousands_loop(Reverse(s), 0)
        formatted == Reverse(outs)
    IN  IF negative THEN <<"-">> \o formatted ELSE formatted

\* fmt_duration, on milliseconds
fmt_duration(ms) ==
    IF ms < 60000 THEN FmtFixed(ms, 1000, 2) \o <<" ", "s">>
    ELSE IF ms < 3600000
    THEN FmtFixed(ms \div 60000, 1, 0) \o <<"m", " ">>
         \o FmtFixed(ms % 60000, 1000, 1) \o <<"s">>
    ELSE FmtFixed(ms \div 3600000, 1, 0) \o <<"h", " ">>
         \o FmtFixed((ms % 3600000) \div 60000, 1, 0) \o <<"m", " ">>
         \o FmtFixed(ms % 60000, 1000, 0) \o <<"s">>

\* the glyphs of the report, one token each
UP == "[chart-up]"

DOWN == "[chart-down]"

SAME == "[minus]"

DASH == <<"[em-dash]">>

NEW_STR == <<"[new]", " ", "N", "E", "W">>

REMOVED_STR == <<"[bin]", " ", "R", "E", "M", "O", "V", "E", "D">>

NO_CHANGE == <<SAME, " ", "n", "o", " ", "c", "h", "a", "n", "g", "e">>

\* " (" ... ")" around a change, as the totals lines print it
Paren(s) == <<" ", "(">> \o s \o <<")">>

\* a comparison off by one: an unchanged size is printed as growth
bytes_diff_zero_as_growth(old, new) ==
    LET diff == new - old
    IN  IF diff >= 0 THEN Paren(<<UP, " ", "+">> \o format_bytes(diff))
        ELSE Paren(<<DOWN, " ", "-">> \o format_bytes(-diff))

\* macro bytes_diff!
bytes_diff(old, new) ==
    LET diff == new - old
    IN  IF diff > 0 THEN Paren(<<UP, " ", "+">> \o format_bytes(diff))
        ELSE IF diff < 0 THEN Paren(<<DOWN, " ", "-">> \o format_bytes(-diff))
        ELSE Paren(NO_CHANGE)

\* the shrinkage printed from the magnitude, so without its minus sign
unitless_diff_unsigned(old, new) ==
    LET diff == new - old
    IN  IF diff > 0 THEN Paren(<<UP, " ", "+">> \o fmt_thousands(diff))
        ELSE IF diff < 0 THEN Paren(<<DOWN, " ">> \o fmt_thousands(-diff))
        ELSE Paren(NO_CHANGE)

\* macro unitless_diff!
unitless_diff(old, new) ==
    LET diff == new - old
    IN  IF diff > 0 THEN Paren(<<UP, " ", "+">> \o fmt_thousands(diff))
        ELSE IF diff < 0 THEN Paren(<<DOWN, " ">> \o fmt_thousands(diff))
        ELSE Paren(NO_CHANGE)

(***************************************************************************)
(* substance::BuildContext as report.rs reads it.                          *)
(*   ctx.crates         sequence of [name, symbols, llvm_functions], where *)
(*                      symbols : name -> size, llvm_functions : name ->   *)
(*                      lines                                              *)
(*   ctx.text_size, ctx.deps_symbols (a set), ctx.wall_duration (ms)       *)
(* The aggregate views are methods of the substance crate.                 *)
(***************************************************************************)
RECURSIVE SumOver(_, _, _)
SumOver(crates, field, name) ==
    \* sum of crate[field][name] over the crates that have `name`
    IF crates = <<>> THEN 0
    ELSE (IF name \in DOMAIN crates[1][field] THEN crates[1][field][name] ELSE 0)
         + SumOver(Tail(crates), field, name)

NamesOf(ctx, field) == UNION {DOMAIN ctx.crates[i][field] : i \in DOMAIN ctx.crates}

CratesHaving(ctx, field, name) ==
    {ctx.crates[i].name : i \in {j \in DOMAIN ctx.crates : name \in DOMAIN ctx.crates[j][field]}}

\* BuildContext::all_symbols: name -> AggregateSymbol
all_symbols(ctx) ==
    [name \in NamesOf(ctx, "symbols") |->
        [name       |-> name,
         total_size |-> SumOver(ctx.crates, "symbols", name),
         crates     |-> CratesHaving(ctx, "symbols", name)]]

\* BuildContext::all_llvm_functions: name -> AggregateLlvmFunction
all_llvm_functions(ctx) ==
    [name \in NamesOf(ctx, "llvm_functions") |->
        [name             |-> name,
         total_llvm_lines |-> SumOver(ctx.crates, "llvm_functions", name),
         crates           |-> CratesHaving(ctx, "llvm_functions", name)]]

\* BuildContext::num_llvm_lines
RECURSIVE num_llvm_lines_of(_)
num_llvm_lines_of(crates) ==
    IF crates = <<>> THEN 0
    ELSE SumValues(crates[1].llvm_functions) + num_llvm_lines_of(Tail(crates))

num_llvm_lines(ctx) == num_llvm_lines_of(ctx.crates)

(***************************************************************************)
(* generate_reports: per-crate size changes                                *)
(***************************************************************************)
TOP_N_CRATES == 10

TOP_N_SYMBOLS == 20

TOP_N_FUNCTIONS == 20

\* current_crates / baseline_crates: Vec<CrateWithSize>
CrateWithSize(ctx) ==
    [i \in DOMAIN ctx.crates |->
        [name |-> ctx.crates[i].name, size |-> SumValues(ctx.crates[i].symbols)]]

\* current_crate_map / baseline_crate_map: inserts in Vec order, a later
\* insert of the same name replaces the earlier one
crate_map(ctx) ==
    LET cws == CrateWithSize(ctx)
        last(name) == CHOOSE i \in DOMAIN cws :
                        /\ cws[i].name = name
                        /\ \A j \in DOMAIN cws : cws[j].name = name => j <= i
    IN  [name \in {cws[i].name : i \in DOMAIN cws} |-> cws[last(name)].size]

crate_names(b, c) == DOMAIN crate_map(c) \cup DOMAIN crate_map(b)

\* a missing side recorded as a crate of size 0 instead of None
ComparativeCrate_absent_as_zero(name, baseline_crate_map, current_crate_map) ==
    LET old_bytes == unwrap_or(MapGet(baseline_crate_map, name), 0)
        new_bytes == unwrap_or(MapGet(current_crate_map, name), 0)
    IN  [name |-> name, old |-> Some(old_bytes), new |-> Some(new_bytes),
         diff |-> new_bytes - old_bytes]

\* the diff taken with a subtraction that saturates at 0
ComparativeCrate_saturating(name, baseline_crate_map, current_crate_map) ==
    LET old       == MapGet(baseline_crate_map, name)
        new       == MapGet(current_crate_map, name)
        old_bytes == unwrap_or(old, 0)
        new_bytes == unwrap_or(new, 0)
    IN  [name |-> name, old |-> old, new |-> new,
         diff |-> IF new_bytes > old_bytes THEN new_bytes - old_bytes ELSE 0]

ComparativeCrate(name, baseline_crate_map, current_crate_map) ==
    LET old       == MapGet(baseline_crate_map, name)
        new       == MapGet(current_crate_map, name)
        old_bytes == unwrap_or(old, 0)
        new_bytes == unwrap_or(new, 0)
    IN  [name |-> name, old |-> old, new |-> new, diff |-> new_bytes - old_bytes]

\* a filter that also keeps the unchanged crates
crate_keep_all(c) == TRUE

\* .filter(|c| c.diff != 0)
crate_has_change(c) == c.diff # 0

\* comparative_crates as collected: the BTreeSet order, then the filter
comparative_crates_collected(b, c) ==
    LET names == BTreeIter(crate_names(b, c))
        bmap  == crate_map(b)
        cmap  == crate_map(c)
    IN  SelectSeq([i \in DOMAIN names |-> ComparativeCrate(names[i], bmap, cmap)],
                  crate_has_change)

\* comparative_crates after sort_by_key(|c| Reverse(c.diff.abs()))
comparative_crates(b, c) ==
    LET cc == comparative_crates_collected(b, c)
    IN  sort_by_key_reverse(cc, [i \in DOMAIN cc |-> abs(cc[i].diff)])

OptBytes(o) == IF is_some(o) THEN format_bytes(o[1]) ELSE DASH

crate_change_str(c) ==
    IF is_some(c.old) /\ is_some(c.new)
    THEN IF c.diff > 0 THEN <<UP, " ", "+">> \o format_bytes(c.diff)
         ELSE <<DOWN, " ", "-">> \o format_bytes(-c.diff)
    ELSE IF is_none(c.old) /\ is_some(c.new) THEN NEW_STR
    ELSE REMOVED_STR

crate_row(c) ==
    [name         |-> c.name,
     baseline_fmt |-> OptBytes(c.old),
     current_fmt  |-> OptBytes(c.new),
     change_str   |-> crate_change_str(c)]

\* the change of an "additional ..." line, in bytes
excluded_change_bytes(diff) ==
    IF diff > 0 THEN <<UP, " ", "+">> \o format_bytes(diff)
    ELSE IF diff < 0 THEN <<DOWN, " ", "-">> \o format_bytes(-diff)
    ELSE NO_CHANGE

\* "*N additional crates account for **B** -> **C** (change)*"
excluded_crates_line(excluded_crates) ==
    LET baseline_sum == SumSeq([i \in DOMAIN excluded_crates |->
                                   unwrap_or(excluded_crates[i].old, 0)])
        current_sum  == SumSeq([i \in DOMAIN excluded_crates |->
                                   unwrap_or(excluded_crates[i].new, 0)])
        diff         == current_sum - baseline_sum
    IN  [count        |-> Len(excluded_crates),
         baseline_sum |-> baseline_sum,
         current_sum  |-> current_sum,
         diff         |-> diff,
         baseline_fmt |-> format_bytes(baseline_sum),
         current_fmt  |-> format_bytes(current_sum),
         change_str   |-> excluded_change_bytes(diff)]

detailed_crates(cc) == take(cc, TOP_N_CRATES)

\* the remainder taken one entry too early: the last row is counted twice
excluded_crates_overlapping(cc) == skip(cc, TOP_N_CRATES - 1)

excluded_crates(cc) == skip(cc, TOP_N_CRATES)

\* the crate table of the markdown report: None when nothing is rendered
crate_table(cc) ==
    LET detailed == detailed_crates(cc)
        excluded == excluded_crates(cc)
    IN  IF detailed = <<>> THEN None
        ELSE Some([rows       |-> [i \in DOMAIN detailed |-> crate_row(detailed[i])],
                   additional |-> IF excluded # <<>>
                                  THEN Some(excluded_crates_line(excluded))
                                  ELSE None])

(***************************************************************************)
(* generate_reports: per-symbol size changes, on the aggregate view        *)
(***************************************************************************)
\* symbol_names: the names of both all_symbols() maps, in a BTreeSet
symbol_names(baseline_sym_map, current_sym_map) ==
    DOMAIN baseline_sym_map \cup DOMAIN current_sym_map

ComparativeSymbol(name, baseline_sym_map, current_sym_map) ==
    LET old       == MapGet(baseline_sym_map, name)
        new       == MapGet(current_sym_map, name)
        old_bytes == IF is_some(old) THEN old[1].total_size ELSE 0
        new_bytes == IF is_some(new) THEN new[1].total_size ELSE 0
    IN  [old |-> old, new |-> new, size_diff |-> new_bytes - old_bytes]

\* the deltas taken crate by crate instead of on the aggregate view
comparative_syms_per_crate(b, c) ==
    LET view(ctx, i) == [n \in DOMAIN ctx.crates[i].symbols |->
                            [name       |-> n,
                             total_size |-> ctx.crates[i].symbols[n],
                             crates     |-> {ctx.crates[i].name}]]
        find(ctx, crate) == {i \in DOMAIN ctx.crates : ctx.crates[i].name = crate}
        viewOf(ctx, crate) == IF find(ctx, crate) = {} THEN <<>>
                              ELSE view(ctx, CHOOSE i \in find(ctx, crate) : TRUE)
        crates == BTreeIter({b.crates[i].name : i \in DOMAIN b.crates}
                            \cup {c.crates[i].name : i \in DOMAIN c.crates})
        RECURSIVE perCrate(_)
        perCrate(k) ==
            IF k > Len(crates) THEN <<>>
            ELSE LET bmap  == viewOf(b, crates[k])
                     cmap  == viewOf(c, crates[k])
                     names == BTreeIter(symbol_names(bmap, cmap))
                 IN  [i \in DOMAIN names |-> ComparativeSymbol(names[i], bmap, cmap)]
                     \o perCrate(k + 1)
    IN  perCrate(1)

\* comparative_syms: one entry per name, in BTreeSet order
comparative_syms(b, c) ==
    LET bmap  == all_symbols(b)
        cmap  == all_symbols(c)
        names == BTreeIter(symbol_names(bmap, cmap))
    IN  [i \in DOMAIN names |-> ComparativeSymbol(names[i], bmap, cmap)]

\* .filter(|sym| sym.size_diff != 0)
sym_has_change(sym) == sym.size_diff # 0

\* sorted_syms: filtered, then sort_by_key(|sym| Reverse(sym.size_diff.abs()))
sorted_syms(b, c) ==
    LET kept == SelectSeq(comparative_syms(b, c), sym_has_change)
    IN  sort_by_key_reverse(kept, [i \in DOMAIN kept |-> abs(kept[i].size_diff)])

\* name of a row: the new entry's name, else the old entry's
entry_name(e) ==
    IF is_some(e.new) THEN e.new[1].name
    ELSE IF is_some(e.old) THEN e.old[1].name
    ELSE "<unknown>"

\* crates of a row ("found in ..."): the new entry's crates, else the old one's
entry_crates(e) ==
    IF is_some(e.new) THEN BTreeIter(e.new[1].crates)
    ELSE IF is_some(e.old) THEN BTreeIter(e.old[1].crates)
    ELSE <<>>

sym_change_str(baseline_size, current_size) ==
    LET old_sz == unwrap_or(baseline_size, 0)
        new_sz == unwrap_or(current_size, 0)
        diff   == new_sz - old_sz
    IN  IF is_some(baseline_size) /\ is_some(current_size)
        THEN IF diff > 0 THEN <<UP, " ", "+">> \o format_bytes(diff)
             ELSE IF diff < 0 THEN <<DOWN, " ", "-">> \o format_bytes(-diff)
             ELSE NO_CHANGE
        ELSE IF is_none(baseline_size) /\ is_some(current_size) THEN NEW_STR
        ELSE IF is_some(baseline_size) /\ is_none(current_size) THEN REMOVED_STR
        ELSE DASH

sym_row(sym) ==
    LET baseline_size == IF is_some(sym.old) THEN Some(sym.old[1].total_size) ELSE None
        current_size  == IF is_some(sym.new) THEN Some(sym.new[1].total_size) ELSE None
    IN  [name         |-> entry_name(sym),
         crates_cell  |-> entry_crates(sym),
         baseline_fmt |-> OptBytes(baseline_size),
         current_fmt  |-> OptBytes(current_size),
         change_str   |-> sym_change_str(baseline_size, current_size)]

\* "*N additional symbols account for **B** -> **C** (change)*"
excluded_syms_line(excluded_syms) ==
    LET baseline_sum_excluded ==
            SumSeq([i \in DOMAIN excluded_syms |->
                       IF is_some(excluded_syms[i].old)
                       THEN excluded_syms[i].old[1].total_size ELSE 0])
        current_sum_excluded ==
            SumSeq([i \in DOMAIN excluded_syms |->
                       IF is_some(excluded_syms[i].new)
                       THEN excluded_syms[i].new[1].total_size ELSE 0])
        diff_excluded == current_sum_excluded - baseline_sum_excluded
    IN  [count        |-> Len(excluded_syms),
         baseline_sum |-> baseline_sum_excluded,
         current_sum  |-> current_sum_excluded,
         diff         |-> diff_excluded,
         baseline_fmt |-> format_bytes(baseline_sum_excluded),
         current_fmt  |-> format_bytes(current_sum_excluded),
         change_str   |-> excluded_change_bytes(diff_excluded)]

detailed_syms(ss) == take(ss, TOP_N_SYMBOLS)

\* the remainder taken one entry too late
excluded_syms_off_by_one(ss) == skip(ss, TOP_N_SYMBOLS + 1)

excluded_syms(ss) == skip(ss, TOP_N_SYMBOLS)

symbol_table(ss) ==
    LET detailed == detailed_syms(ss)
        excluded == excluded_syms(ss)
    IN  IF detailed = <<>> THEN None
        ELSE Some([rows       |-> [i \in DOMAIN detailed |-> sym_row(detailed[i])],
                   additional |-> IF excluded # <<>>
                                  THEN Some(excluded_syms_line(excluded))
                                  ELSE None])

(***************************************************************************)
(* generate_reports: per-function LLVM IR line changes                     *)
(***************************************************************************)
\* names (ranks) that start with "autocfg_"
AutocfgNames == {3}

autocfg_predicate(name) == name \in AutocfgNames

\* a retain that keeps every function, the autocfg_ probes included
retain_everything(fn_map) == fn_map

\* map.retain(|name, _| !autocfg_predicate(name))
retain_not_autocfg(fn_map) ==
    [name \in {n \in DOMAIN fn_map : ~autocfg_predicate(n)} |-> fn_map[name]]

fn_names(baseline_fn_map, current_fn_map) ==
    DOMAIN current_fn_map \cup DOMAIN baseline_fn_map

ComparativeFn(name, baseline_fn_map, current_fn_map) ==
    LET old       == MapGet(baseline_fn_map, name)
        new       == MapGet(current_fn_map, name)
        old_lines == IF is_some(old) THEN old[1].total_llvm_lines ELSE 0
        new_lines == IF is_some(new) THEN new[1].total_llvm_lines ELSE 0
    IN  [old |-> old, new |-> new, line_diff |-> new_lines - old_lines]

\* a filter that also keeps the unchanged functions
fn_keep_all(f) == TRUE

\* .filter(|f| f.line_diff != 0)
fn_has_change(f) == f.line_diff # 0

\* comparative_fns as collected: the BTreeSet order, then the filter
comparative_fns_collected(b, c) ==
    LET bmap  == retain_not_autocfg(all_llvm_functions(b))
        cmap  == retain_not_autocfg(all_llvm_functions(c))
        names == BTreeIter(fn_names(bmap, cmap))
    IN  SelectSeq([i \in DOMAIN names |-> ComparativeFn(names[i], bmap, cmap)],
                  fn_has_change)

\* comparative_fns after sort_by_key(|f| Reverse(f.line_diff.abs()))
comparative_fns(b, c) ==
    LET cf == comparative_fns_collected(b, c)
    IN  sort_by_key_reverse(cf, [i \in DOMAIN cf |-> abs(cf[i].line_diff)])

OptLines(o) == IF is_some(o) THEN fmt_thousands(o[1]) ELSE DASH

fn_change_str(baseline_lines, current_lines) ==
    LET old_ln == unwrap_or(baseline_lines, 0)
        new_ln == unwrap_or(current_lines, 0)
        diff   == new_ln - old_ln
    IN  IF is_some(baseline_lines) /\ is_some(current_lines)
        THEN IF diff > 0 THEN <<UP, " ", "+">> \o fmt_thousands(diff)
             ELSE IF diff < 0 THEN <<DOWN, " ", "-">> \o fmt_thousands(-diff)
             ELSE NO_CHANGE
        ELSE IF is_none(baseline_lines) /\ is_some(current_lines) THEN NEW_STR
        ELSE IF is_some(baseline_lines) /\ is_none(current_lines) THEN REMOVED_STR
        ELSE DASH

fn_row(f) ==
    LET baseline_lines == IF is_some(f.old) THEN Some(f.old[1].total_llvm_lines) ELSE None
        current_lines  == IF is_some(f.new) THEN Some(f.new[1].total_llvm_lines) ELSE None
    IN  [name         |-> entry_name(f),
         crates_cell  |-> entry_crates(f),
         baseline_fmt |-> OptLines(baseline_lines),
         current_fmt  |-> OptLines(current_lines),
         change_str   |-> fn_change_str(baseline_lines, current_lines)]

\* "*N additional functions account for **B** -> **C** (change)*"
excluded_fns_line(excluded_fns) ==
    LET baseline_sum == SumSeq([i \in DOMAIN excluded_fns |->
                                   IF is_some(excluded_fns[i].old)
                                   THEN excluded_fns[i].old[1].total_llvm_lines ELSE 0])
        current_sum  == SumSeq([i \in DOMAIN excluded_fns |->
                                   IF is_some(excluded_fns[i].new)
                                   THEN excluded_fns[i].new[1].total_llvm_lines ELSE 0])
        diff         == current_sum - baseline_sum
    IN  [count        |-> Len(excluded_fns),
         baseline_sum |-> baseline_sum,
         current_sum  |-> current_sum,
         diff         |-> diff,
         baseline_fmt |-> fmt_thousands(baseline_sum),
         current_fmt  |-> fmt_thousands(current_sum),
         change_str   |-> IF diff > 0 THEN <<UP, " ", "+">> \o fmt_thousands(diff)
                          ELSE IF diff < 0 THEN <<DOWN, " ", "-">> \o fmt_thousands(-diff)
                          ELSE NO_CHANGE]

detailed_fns(cf) == take(cf, TOP_N_FUNCTIONS)

excluded_fns(cf) == skip(cf, TOP_N_FUNCTIONS)

fn_table(cf) ==
    LET detailed == detailed_fns(cf)
        excluded == excluded_fns(cf)
    IN  IF detailed = <<>> THEN None
        ELSE Some([rows       |-> [i \in DOMAIN detailed |-> fn_row(detailed[i])],
                   additional |-> IF excluded # <<>>
                                  THEN Some(excluded_fns_line(excluded))
                                  ELSE None])

(***************************************************************************)
(* generate_reports: the totals lines                                      *)
(***************************************************************************)
\* "Number of crates: N (change)"
num_crates_line(b, c) ==
    LET current_num_crates  == Len(c.crates)
        baseline_num_crates == Len(b.crates)
    IN  [value  |-> to_string(current_num_crates),
         change |-> unitless_diff(baseline_num_crates, current_num_crates)]

\* "N symbols (change)"
num_symbols_line(b, c) ==
    LET current_num_symbols  == Cardinality(c.deps_symbols)
        baseline_num_symbols == Cardinality(b.deps_symbols)
    IN  [value  |-> to_string(current_num_symbols),
         change |-> unitless_diff(baseline_num_symbols, current_num_symbols)]

\* the text-size change derived from the summed crate sizes
text_size_line_from_crates(b, c) ==
    [value  |-> format_bytes(c.text_size),
     change |-> bytes_diff(SumSeq([i \in DOMAIN b.crates |-> SumValues(b.crates[i].symbols)]),
                           SumSeq([i \in DOMAIN c.crates |-> SumValues(c.crates[i].symbols)]))]

\* ", totaling S (change)"
text_size_line(b, c) ==
    [value  |-> format_bytes(c.text_size),
     change |-> bytes_diff(b.text_size, c.text_size)]

\* "Number of LLVM lines: N (change)"
llvm_lines_line(b, c) ==
    LET current_llvm_lines  == num_llvm_lines(c)
        baseline_llvm_lines == num_llvm_lines(b)
    IN  [value  |-> fmt_thousands(current_llvm_lines),
         change |-> unitless_diff(baseline_llvm_lines, current_llvm_lines)]

\* the change of the wall duration; thresholds 0.01 s = 10 ms
WALL_EPSILON_MS == 10

wall_change(baseline_ms, current_ms) ==
    LET diff == current_ms - baseline_ms
    IN  IF diff > WALL_EPSILON_MS
        THEN Paren(<<UP, " ", "+">> \o FmtFixed(diff, 1000, 2) \o <<" ", "s">>)
        ELSE IF diff < -WALL_EPSILON_MS
        THEN Paren(<<DOWN, " ", "-">> \o FmtFixed(-diff, 1000, 2) \o <<" ", "s">>)
        ELSE Paren(NO_CHANGE)

\* "Wall duration: D (change)"
wall_duration_line(b, c) ==
    [value  |-> fmt_duration(c.wall_duration),
     change |-> wall_change(b.wall_duration, c.wall_duration)]

(***************************************************************************)
(* generate_reports(baseline, current): the delta lists it builds and the  *)
(* markdown it writes (the text output carries the same totals lines and   *)
(* no table).                                                              *)
(***************************************************************************)
generate_reports(b, c) ==
    LET cc == comparative_crates(b, c)
        ss == sorted_syms(b, c)
        cf == comparative_fns(b, c)
    IN  [num_crates         |-> num_crates_line(b, c),
         comparative_crates |-> cc,
         crate_table        |-> crate_table(cc),
         num_symbols        |-> num_symbols_line(b, c),
         text_size          |-> text_size_line(b, c),
         sorted_syms        |-> ss,
         symbol_table       |-> symbol_table(ss),
         llvm_lines         |-> llvm_lines_line(b, c),
         comparative_fns    |-> cf,
         fn_table           |-> fn_table(cf),
         wall_duration      |-> wall_duration_line(b, c)]

(***************************************************************************)
(* The builds compared.  A BuildContext is assembled from symbol entries   *)
(* <<crate, symbol, size>> and function entries <<crate, function, lines>>;*)
(* sizes and line counts are positive, a crate may own no symbol, and the  *)
(* crates are ordered by total symbol size, largest first, then by name.   *)
(***************************************************************************)
MaxEntries == 2

MaxOver == 2

Strides == {1, 2, 3}

CrateNames == {1, 2}

SymNames == {1, 2}

ByteSizes == {50, 100}

FnNames == {1, 2}

LineCounts == {7, 307}

Paddings == {0, 24}

WallDurations == {1000, 1004, 1024}

EntryMap(entries, crate) ==
    [n \in {e[2] : e \in {x \in entries : x[1] = crate}} |->
        (CHOOSE e \in entries : e[1] = crate /\ e[2] = n)[3]]

MkContext(extra_crates, sym_entries, fn_entries, padding, deps, wall) ==
    LET names    == BTreeIter(extra_crates \cup {e[1] : e \in sym_entries \cup fn_entries})
        unsorted == [i \in DOMAIN names |->
                        [name           |-> names[i],
                         symbols        |-> EntryMap(sym_entries, names[i]),
                         llvm_functions |-> EntryMap(fn_entries, names[i])]]
    IN  [crates        |-> sort_by_key_reverse(unsorted,
                              [i \in DOMAIN unsorted |-> SumValues(unsorted[i].symbols)]),
         text_size     |-> SumSeq([i \in DOMAIN unsorted |->
                                      SumValues(unsorted[i].symbols)]) + padding,
         deps_symbols  |-> deps,
         wall_duration |-> wall]

\* the tables of at most k entries of E, no two for the same (crate, name)
RECURSIVE Tables(_, _)
Tables(E, k) ==
    IF k = 0 THEN {{}}
    ELSE LET smaller == Tables(E, k - 1)
         IN  smaller \cup
             UNION {{T \cup {e} : e \in {x \in E : \A y \in T : x[1] # y[1] \/ x[2] # y[2]}}
                    : T \in smaller}

SymTables == Tables(CrateNames \X SymNames \X ByteSizes, MaxEntries)

\* an autocfg_ probe function is emitted in one crate only
FnEntries == (CrateNames \X FnNames \X LineCounts) \cup ({1} \X AutocfgNames \X LineCounts)

FnTables == Tables(FnEntries, MaxEntries)

\* builds that differ in their symbols and crates
SymContexts ==
    {MkContext(extra, T, {}, 0, {}, 1000) :
        extra \in {{}} \cup {{c} : c \in CrateNames}, T \in SymTables}

\* builds that differ in their LLVM functions
FnContexts ==
    {MkContext({}, {<<1, 1, 100>>}, T, 0, {}, 1000) : T \in FnTables}

\* builds that differ in the totals only
ScalarContexts ==
    {MkContext({}, {<<1, 1, 100>>}, {<<1, 2, 7>>}, pad, deps, wall) :
        pad \in Paddings, deps \in {{}, {1}, {1, 2}}, wall \in WallDurations}

\* large builds: nc crates, ns symbols and functions spread over them
PatternContext(nc, ns, stride) ==
    MkContext({},
              {<<((s - 1) % nc) + 1, s, 10 + ((s * stride) % 29)>> : s \in 1..ns},
              {<<((f - 1) % nc) + 1, f, 5 + ((f * stride) % 29)>> : f \in 1..ns},
              stride, 1..ns, 1000 * stride)

PatternContexts ==
    {PatternContext(TOP_N_CRATES + i, TOP_N_SYMBOLS + j, stride) :
        i \in 1..MaxOver, j \in 1..MaxOver, stride \in Strides}

Contexts == SymContexts \cup FnContexts \cup ScalarContexts \cup PatternContexts

(***************************************************************************)
(* The state machine: one call of generate_reports on two builds.          *)
(***************************************************************************)
\* extract_crate_from_function is not being called
AttrIdle == func_name = <<>> /\ attributed = None

\* main is not running
MainIdle ==
    /\ args = <<>> /\ env = <<>> /\ mpc = "idle"
    /\ markdown_mode = FALSE /\ markdown_output_path = None
    /\ current_result = None /\ main_result = None
    /\ fs = {} /\ stdout = <<>> /\ md_file = None
    /\ exit_code = None /\ first_run = None

\* no single function is being called
CallIdle == callee = "" /\ call_arg = <<>> /\ call_ret = None

\* no worktree function is running
GitIdle ==
    /\ git_op = "" /\ git_pc = <<>> /\ git_fs = <<>> /\ git_env = <<>>
    /\ git_log = <<>> /\ git_ret = None

Init ==
    /\ baseline \in Contexts
    /\ current \in Contexts
    /\ pc = "start"
    /\ out = None
    /\ AttrIdle
    /\ MainIdle
    /\ CallIdle
    /\ GitIdle

\* generate_reports(baseline, current, tx_w, md_w)
GenerateReports ==
    /\ pc = "start"
    /\ out' = Some(generate_reports(baseline, current))
    /\ pc' = "done"
    /\ UNCHANGED <<baseline, current, attr_vars, main_vars, call_vars, git_vars>>

Next == GenerateReports

Spec == Init /\ [][Next]_vars

Report == out[1]

TypeOK == pc \in {"start", "done"} /\ (pc = "done" <=> is_some(out))

(***************************************************************************)
(* Reference values, read directly from the two builds                     *)
(***************************************************************************)
CrateNamesOf(ctx) == {ctx.crates[i].name : i \in DOMAIN ctx.crates}

\* total symbol size of the crate `name`, 0 when the build has no such crate
CrateSize(ctx, name) ==
    SumSeq([i \in DOMAIN ctx.crates |->
               IF ctx.crates[i].name = name THEN SumValues(ctx.crates[i].symbols) ELSE 0])

\* size of the symbol `name` over all crates, 0 when absent
SymSize(ctx, name) == SumOver(ctx.crates, "symbols", name)

\* lines of the function `name` over all crates, 0 when absent
FnLines(ctx, name) == SumOver(ctx.crates, "llvm_functions", name)

AllCrateNames == CrateNamesOf(baseline) \cup CrateNamesOf(current)

AllSymNames == NamesOf(baseline, "symbols") \cup NamesOf(current, "symbols")

AllFnNames == NamesOf(baseline, "llvm_functions") \cup NamesOf(current, "llvm_functions")

Done == pc = "done"

\* the three delta lists as <<name, diff>> sequences
CrateDeltas == [i \in DOMAIN Report.comparative_crates |->
                  <<Report.comparative_crates[i].name, Report.comparative_crates[i].diff>>]

SymDeltas == [i \in DOMAIN Report.sorted_syms |->
                <<entry_name(Report.sorted_syms[i]), Report.sorted_syms[i].size_diff>>]

FnDeltas == [i \in DOMAIN Report.comparative_fns |->
               <<entry_name(Report.comparative_fns[i]), Report.comparative_fns[i].line_diff>>]

\* number of entries a rendered table accounts for: its rows and the count
\* of its "additional ..." line
TableEntries(table) ==
    IF is_none(table) THEN 0
    ELSE Len(table[1].rows)
         + (IF is_some(table[1].additional) THEN table[1].additional[1].count ELSE 0)

RowNames(table) ==
    IF is_none(table) THEN {} ELSE {table[1].rows[i].name : i \in DOMAIN table[1].rows}

(***************************************************************************)
(* C1: every entry of the crate, symbol and IR-function delta lists has a  *)
(* non-zero diff: a name whose baseline and current values are equal       *)
(* (absent counted as 0) is in none of the lists, neither as a row of the  *)
(* table nor counted by the "additional ..." line.                         *)
(***************************************************************************)
C1_NoZeroDiffEntry ==
    Done =>
        /\ \A i \in DOMAIN CrateDeltas :
              /\ CrateDeltas[i][2] # 0
              /\ CrateSize(current, CrateDeltas[i][1]) # CrateSize(baseline, CrateDeltas[i][1])
        /\ \A i \in DOMAIN SymDeltas :
              /\ SymDeltas[i][2] # 0
              /\ SymSize(current, SymDeltas[i][1]) # SymSize(baseline, SymDeltas[i][1])
        /\ \A i \in DOMAIN FnDeltas :
              /\ FnDeltas[i][2] # 0
              /\ FnLines(current, FnDeltas[i][1]) # FnLines(baseline, FnDeltas[i][1])
        /\ \A n \in RowNames(Report.crate_table) :
              CrateSize(current, n) # CrateSize(baseline, n)
        /\ \A n \in RowNames(Report.symbol_table) :
              SymSize(current, n) # SymSize(baseline, n)
        /\ \A n \in RowNames(Report.fn_table) :
              FnLines(current, n) # FnLines(baseline, n)
        /\ TableEntries(Report.crate_table) = Len(Report.comparative_crates)
        /\ TableEntries(Report.symbol_table) = Len(Report.sorted_syms)
        /\ TableEntries(Report.fn_table) = Len(Report.comparative_fns)

\* a report with changed entries in all three lists while a crate, a symbol
\* and a function are unchanged between the builds
C1_Witness ==
    /\ Done
    /\ Len(CrateDeltas) > 0 /\ Len(SymDeltas) > 0 /\ Len(FnDeltas) > 0
    /\ \E n \in CrateNamesOf(baseline) \cap CrateNamesOf(current) :
          CrateSize(current, n) = CrateSize(baseline, n)
    /\ \E n \in NamesOf(baseline, "symbols") \cap NamesOf(current, "symbols") :
          SymSize(current, n) = SymSize(baseline, n)
    /\ \E n \in NamesOf(baseline, "llvm_functions") \cap NamesOf(current, "llvm_functions") :
          /\ ~autocfg_predicate(n)
          /\ FnLines(current, n) = FnLines(baseline, n)

(***************************************************************************)
(* C2: each delta list is ordered by |diff| descending, and two entries    *)
(* with equal |diff| are in ascending order of their names.                *)
(***************************************************************************)
SortedByAbsDiffThenName(deltas) ==
    \A i \in DOMAIN deltas : \A j \in DOMAIN deltas :
        i < j =>
            \/ abs(deltas[i][2]) > abs(deltas[j][2])
            \/ (abs(deltas[i][2]) = abs(deltas[j][2]) /\ deltas[i][1] < deltas[j][1])

C2_DeltaListsSorted ==
    Done =>
        /\ SortedByAbsDiffThenName(CrateDeltas)
        /\ SortedByAbsDiffThenName(SymDeltas)
        /\ SortedByAbsDiffThenName(FnDeltas)

HasTie(deltas) ==
    \E i \in DOMAIN deltas : \E j \in DOMAIN deltas :
        i # j /\ abs(deltas[i][2]) = abs(deltas[j][2])

HasStrictStep(deltas) ==
    \E i \in DOMAIN deltas : \E j \in DOMAIN deltas :
        abs(deltas[i][2]) > abs(deltas[j][2])

\* every list holds entries of different |diff| and entries that tie
C2_Witness ==
    /\ Done
    /\ HasTie(CrateDeltas) /\ HasStrictStep(CrateDeltas)
    /\ HasTie(SymDeltas) /\ HasStrictStep(SymDeltas)
    /\ HasTie(FnDeltas) /\ HasStrictStep(FnDeltas)

(***************************************************************************)
(* C3: reflexivity.  With the same build as baseline and as current the    *)
(* three delta lists are empty, no table is rendered, and the crate count, *)
(* symbol count, text size, LLVM line count and wall duration all read     *)
(* "no change".                                                            *)
(***************************************************************************)
C3_Reflexive ==
    (Done /\ baseline = current) =>
        /\ Report.comparative_crates = <<>>
        /\ Report.sorted_syms = <<>>
        /\ Report.comparative_fns = <<>>
        /\ is_none(Report.crate_table)
        /\ is_none(Report.symbol_table)
        /\ is_none(Report.fn_table)
        /\ Report.num_crates.change = Paren(NO_CHANGE)
        /\ Report.num_symbols.change = Paren(NO_CHANGE)
        /\ Report.text_size.change = Paren(NO_CHANGE)
        /\ Report.llvm_lines.change = Paren(NO_CHANGE)
        /\ Report.wall_duration.change = Paren(NO_CHANGE)

\* a build with crates, symbols and functions compared with itself
C3_Witness ==
    /\ Done
    /\ baseline = current
    /\ Len(current.crates) > 1
    /\ NamesOf(current, "symbols") # {}
    /\ NamesOf(current, "llvm_functions") # {}
    /\ current.text_size > 0

(***************************************************************************)
(* Reading a rendered change                                               *)
(***************************************************************************)
\* the change without the " (" ... ")" of a totals line
StripParen(s) ==
    IF Len(s) >= 3 /\ s[1] = " " /\ s[2] = "(" THEN SubSeq(s, 3, Len(s) - 1) ELSE s

\* "+", "-" or "no change" as the reader sees it; NEW / REMOVED / other else
RenderedSign(s) ==
    LET body == StripParen(s)
    IN  IF body = NO_CHANGE THEN "no change"
        ELSE IF body = NEW_STR THEN "NEW"
        ELSE IF body = REMOVED_STR THEN "REMOVED"
        ELSE IF Len(body) > 3 /\ body[1] = UP /\ body[3] = "+" THEN "+"
        ELSE IF Len(body) > 3 /\ body[1] = DOWN /\ body[3] = "-" THEN "-"
        ELSE "other"

\* the same change with growth and shrinkage exchanged
FlipSign(s) ==
    LET body    == StripParen(s)
        flipped == IF RenderedSign(s) = "+"
                   THEN <<DOWN, " ", "-">> \o SubSeq(body, 4, Len(body))
                   ELSE IF RenderedSign(s) = "-"
                   THEN <<UP, " ", "+">> \o SubSeq(body, 4, Len(body))
                   ELSE body
    IN  IF body = s THEN flipped ELSE Paren(flipped)

Negated(deltas) == {<<deltas[i][1], -deltas[i][2]>> : i \in DOMAIN deltas}

(***************************************************************************)
(* C4: anti-symmetry.  The crate-count, symbol-count, text-size and LLVM   *)
(* line-count changes of (baseline = A, current = B) are the negation of   *)
(* those of (baseline = B, current = A), and the three delta lists hold    *)
(* the same names in both directions, each diff negated.                   *)
(***************************************************************************)
C4_AntiSymmetric ==
    Done =>
        LET rev == generate_reports(current, baseline)
            revCrates == [i \in DOMAIN rev.comparative_crates |->
                             <<rev.comparative_crates[i].name, rev.comparative_crates[i].diff>>]
            revSyms   == [i \in DOMAIN rev.sorted_syms |->
                             <<entry_name(rev.sorted_syms[i]), rev.sorted_syms[i].size_diff>>]
            revFns    == [i \in DOMAIN rev.comparative_fns |->
                             <<entry_name(rev.comparative_fns[i]), rev.comparative_fns[i].line_diff>>]
        IN  /\ rev.num_crates.change = FlipSign(Report.num_crates.change)
            /\ rev.num_symbols.change = FlipSign(Report.num_symbols.change)
            /\ rev.text_size.change = FlipSign(Report.text_size.change)
            /\ rev.llvm_lines.change = FlipSign(Report.llvm_lines.change)
            /\ Range(revCrates) = Negated(CrateDeltas)
            /\ Range(revSyms) = Negated(SymDeltas)
            /\ Range(revFns) = Negated(FnDeltas)
            /\ Len(revCrates) = Len(CrateDeltas)
            /\ Len(revSyms) = Len(SymDeltas)
            /\ Len(revFns) = Len(FnDeltas)

\* two builds that differ in every total and in every list, growth and
\* shrinkage both occurring among the crates
C4_Witness ==
    /\ Done
    /\ RenderedSign(Report.num_crates.change) = "+"
    /\ RenderedSign(Report.num_symbols.change) = "-"
    /\ RenderedSign(Report.text_size.change) = "+"
    /\ RenderedSign(Report.llvm_lines.change) = "-"
    /\ \E i \in DOMAIN CrateDeltas : CrateDeltas[i][2] > 0
    /\ \E i \in DOMAIN CrateDeltas : CrateDeltas[i][2] < 0
    /\ Len(SymDeltas) > 0
    /\ Len(FnDeltas) > 0

(***************************************************************************)
(* C5: each delta list is built over the union of the names of both        *)
(* builds.  A name only in current is an entry with before absent and      *)
(* diff = +its current value, rendered NEW; a name only in baseline is an  *)
(* entry with after absent and diff = -its baseline value, rendered        *)
(* REMOVED; the crate count changes by added minus removed crates.         *)
(* As amended: this holds of the names whose value is not 0 (a crate that  *)
(* owns no symbol has diff 0 and is elided, though it is counted in the    *)
(* number of crates) and, for functions, of names not starting with        *)
(* autocfg_.                                                               *)
(***************************************************************************)
OptValue(present, value) == IF present THEN Some(value) ELSE None

C5_UnionOfNames ==
    Done =>
        /\ {CrateDeltas[i][1] : i \in DOMAIN CrateDeltas}
              = {n \in AllCrateNames : CrateSize(current, n) # CrateSize(baseline, n)}
        /\ {SymDeltas[i][1] : i \in DOMAIN SymDeltas}
              = {n \in AllSymNames : SymSize(current, n) # SymSize(baseline, n)}
        /\ {FnDeltas[i][1] : i \in DOMAIN FnDeltas}
              = {n \in AllFnNames : /\ ~autocfg_predicate(n)
                                    /\ FnLines(current, n) # FnLines(baseline, n)}
        /\ \A i \in DOMAIN Report.comparative_crates :
              LET e == Report.comparative_crates[i]
              IN  /\ e.old = OptValue(e.name \in CrateNamesOf(baseline), CrateSize(baseline, e.name))
                  /\ e.new = OptValue(e.name \in CrateNamesOf(current), CrateSize(current, e.name))
                  /\ e.diff = CrateSize(current, e.name) - CrateSize(baseline, e.name)
        /\ \A i \in DOMAIN Report.sorted_syms :
              LET e == Report.sorted_syms[i]
                  n == entry_name(e)
              IN  /\ is_some(e.old) <=> n \in NamesOf(baseline, "symbols")
                  /\ is_some(e.new) <=> n \in NamesOf(current, "symbols")
                  /\ e.size_diff = SymSize(current, n) - SymSize(baseline, n)
        /\ \A i \in DOMAIN Report.comparative_fns :
              LET e == Report.comparative_fns[i]
                  n == entry_name(e)
              IN  /\ is_some(e.old) <=> n \in NamesOf(baseline, "llvm_functions")
                  /\ is_some(e.new) <=> n \in NamesOf(current, "llvm_functions")
                  /\ e.line_diff = FnLines(current, n) - FnLines(baseline, n)
        /\ is_some(Report.crate_table) =>
              \A i \in DOMAIN Report.crate_table[1].rows :
                  LET row == Report.crate_table[1].rows[i]
                  IN  /\ row.name \notin CrateNamesOf(baseline) =>
                            row.change_str = NEW_STR /\ row.baseline_fmt = DASH
                      /\ row.name \notin CrateNamesOf(current) =>
                            row.change_str = REMOVED_STR /\ row.current_fmt = DASH
        /\ is_some(Report.symbol_table) =>
              \A i \in DOMAIN Report.symbol_table[1].rows :
                  LET row == Report.symbol_table[1].rows[i]
                  IN  /\ row.name \notin NamesOf(baseline, "symbols") =>
                            row.change_str = NEW_STR /\ row.baseline_fmt = DASH
                      /\ row.name \notin NamesOf(current, "symbols") =>
                            row.change_str = REMOVED_STR /\ row.current_fmt = DASH
        /\ is_some(Report.fn_table) =>
              \A i \in DOMAIN Report.fn_table[1].rows :
                  LET row == Report.fn_table[1].rows[i]
                  IN  /\ row.name \notin NamesOf(baseline, "llvm_functions") =>
                            row.change_str = NEW_STR /\ row.baseline_fmt = DASH
                      /\ row.name \notin NamesOf(current, "llvm_functions") =>
                            row.change_str = REMOVED_STR /\ row.current_fmt = DASH
        /\ Report.num_crates.change
              = unitless_diff(Cardinality(CrateNamesOf(baseline) \ CrateNamesOf(current)),
                              Cardinality(CrateNamesOf(current) \ CrateNamesOf(baseline)))

\* S2: of the crates foo (100 B) and bar (50 B) only foo is left; the list is
\* the single entry bar, before 50, after absent, diff -50, and the number
\* of crates reads -1
C5_Witness ==
    /\ Done
    /\ Len(baseline.crates) = 2 /\ Len(current.crates) = 1
    /\ \E bar \in CrateNamesOf(baseline) \ CrateNamesOf(current) :
          /\ CrateSize(baseline, bar) = 50
          /\ \A foo \in CrateNamesOf(current) :
                CrateSize(baseline, foo) = 100 /\ CrateSize(current, foo) = 100
          /\ Report.comparative_crates
                = <<[name |-> bar, old |-> Some(50), new |-> None, diff |-> -50]>>
    /\ Report.num_crates.change = Paren(<<DOWN, " ", "-", "1">>)

\* the claim as stated: every crate and symbol found in one build only, and
\* every such function that is not an autocfg_ probe, is an entry of its list
C5_EveryOneSidedNameListed ==
    Done =>
        /\ \A n \in CrateNamesOf(current) \ CrateNamesOf(baseline) :
              \E i \in DOMAIN Report.comparative_crates :
                  LET e == Report.comparative_crates[i]
                  IN  e.name = n /\ is_none(e.old) /\ e.diff = CrateSize(current, n)
        /\ \A n \in CrateNamesOf(baseline) \ CrateNamesOf(current) :
              \E i \in DOMAIN Report.comparative_crates :
                  LET e == Report.comparative_crates[i]
                  IN  e.name = n /\ is_none(e.new) /\ e.diff = -CrateSize(baseline, n)
        /\ \A n \in NamesOf(current, "symbols") \ NamesOf(baseline, "symbols") :
              \E i \in DOMAIN SymDeltas : SymDeltas[i] = <<n, SymSize(current, n)>>
        /\ \A n \in NamesOf(baseline, "symbols") \ NamesOf(current, "symbols") :
              \E i \in DOMAIN SymDeltas : SymDeltas[i] = <<n, -SymSize(baseline, n)>>
        /\ \A n \in NamesOf(current, "llvm_functions") \ NamesOf(baseline, "llvm_functions") :
              ~autocfg_predicate(n) =>
                  \E i \in DOMAIN FnDeltas : FnDeltas[i] = <<n, FnLines(current, n)>>
        /\ \A n \in NamesOf(baseline, "llvm_functions") \ NamesOf(current, "llvm_functions") :
              ~autocfg_predicate(n) =>
                  \E i \in DOMAIN FnDeltas : FnDeltas[i] = <<n, -FnLines(baseline, n)>>

(***************************************************************************)
(* C6: the symbol deltas are taken on the aggregate view over all crates.  *)
(* A symbol attributed to crate alpha in baseline and to crate beta in     *)
(* current with the same size, nothing else of the two crates changing,    *)
(* is not in the symbol delta list, while the crate delta list holds       *)
(* alpha with diff -size and beta with diff +size.                         *)
(***************************************************************************)
\* the symbols of the crate `name`, the empty map when the build has no such crate
SymbolsOfCrate(ctx, name) ==
    LET found == {i \in DOMAIN ctx.crates : ctx.crates[i].name = name}
    IN  IF found = {} THEN <<>> ELSE ctx.crates[CHOOSE i \in found : TRUE].symbols

Without(map, name) == [n \in DOMAIN map \ {name} |-> map[n]]

Migrates(sym, alpha, beta) ==
    /\ alpha # beta
    /\ CratesHaving(baseline, "symbols", sym) = {alpha}
    /\ CratesHaving(current, "symbols", sym) = {beta}
    /\ SymSize(baseline, sym) = SymSize(current, sym)
    /\ Without(SymbolsOfCrate(baseline, alpha), sym) = SymbolsOfCrate(current, alpha)
    /\ SymbolsOfCrate(baseline, beta) = Without(SymbolsOfCrate(current, beta), sym)

C6_SymbolDeltasOnAggregate ==
    Done =>
        \A sym \in AllSymNames : \A alpha \in AllCrateNames : \A beta \in AllCrateNames :
            Migrates(sym, alpha, beta) =>
                /\ \A i \in DOMAIN SymDeltas : SymDeltas[i][1] # sym
                /\ sym \notin RowNames(Report.symbol_table)
                /\ \E i \in DOMAIN CrateDeltas :
                      CrateDeltas[i] = <<alpha, -SymSize(baseline, sym)>>
                /\ \E i \in DOMAIN CrateDeltas :
                      CrateDeltas[i] = <<beta, SymSize(current, sym)>>

\* a symbol has moved from one crate to another, which both exist in both
\* builds; the crate list is the two entries of the claim
C6_Witness ==
    /\ Done
    /\ \E sym \in AllSymNames : \E alpha \in AllCrateNames : \E beta \in AllCrateNames :
          /\ Migrates(sym, alpha, beta)
          /\ {alpha, beta} \subseteq CrateNamesOf(baseline) \cap CrateNamesOf(current)
    /\ Len(CrateDeltas) = 2

(***************************************************************************)
(* C7: the text-size change of the report is current.text_size minus       *)
(* baseline.text_size, whatever the sizes of the crates and symbols are;   *)
(* it is not the sum of the crate or symbol deltas.                        *)
(***************************************************************************)
RenderedBytes(delta) ==
    IF delta > 0 THEN <<UP, " ", "+">> \o format_bytes(delta)
    ELSE IF delta < 0 THEN <<DOWN, " ", "-">> \o format_bytes(-delta)
    ELSE NO_CHANGE

C7_TextSizeFromSections ==
    Done =>
        /\ Report.text_size.change = Paren(RenderedBytes(current.text_size - baseline.text_size))
        /\ Report.text_size.value = format_bytes(current.text_size)

\* the section sizes differ although no crate and no symbol changed, or
\* differ by another amount than the crates do
C7_Witness ==
    /\ Done
    /\ current.text_size - baseline.text_size
          # SumSeq([i \in DOMAIN CrateDeltas |-> CrateDeltas[i][2]])
    /\ current.text_size - baseline.text_size
          # SumSeq([i \in DOMAIN SymDeltas |-> SymDeltas[i][2]])
    /\ current.text_size # baseline.text_size
    /\ Len(CrateDeltas) > 0

(***************************************************************************)
(* C8: an IR-only change.  When the two builds differ only in one          *)
(* function (not an autocfg_ probe) that has 300 more lines in current,    *)
(* the crate and symbol delta lists are empty, the text size reads "no     *)
(* change" and the function delta list is the one entry of diff +300.      *)
(***************************************************************************)
IrOnlyChange(i, f) ==
    /\ f \in DOMAIN baseline.crates[i].llvm_functions
    /\ ~autocfg_predicate(f)
    /\ current = [baseline EXCEPT !.crates[i].llvm_functions[f] = @ + 300]

Min(a, b) == IF a < b THEN a ELSE b

\* the rows are the first `limit` entries of the list, which no later entry
\* exceeds in |delta|
RowsAreTop(deltas, table, limit) ==
    /\ is_none(table) <=> deltas = <<>>
    /\ is_some(table) =>
          /\ Len(table[1].rows) = Min(Len(deltas), limit)
          /\ \A i \in DOMAIN table[1].rows : table[1].rows[i].name = deltas[i][1]
          /\ \A i \in DOMAIN table[1].rows : \A j \in DOMAIN deltas :
                j > Len(table[1].rows) => abs(deltas[i][2]) >= abs(deltas[j][2])
          /\ is_some(table[1].additional) <=> Len(deltas) > limit

\* the "additional ..." line sums the entries beyond the limit; before(n) and
\* after(n) are sequences of the values of the entries' names
RemainingIsSum(deltas, table, limit, beforeVals, afterVals) ==
    (is_some(table) /\ is_some(table[1].additional)) =>
        LET line   == table[1].additional[1]
            before == SumSeq(skip(beforeVals, limit))
            after  == SumSeq(skip(afterVals, limit))
        IN  /\ line.count = Len(deltas) - limit
            /\ line.baseline_sum = before
            /\ line.current_sum = after
            /\ line.diff = after - before

C9_TopNAndRemaining ==
    Done =>
        /\ RowsAreTop(CrateDeltas, Report.crate_table, 10)
        /\ RowsAreTop(SymDeltas, Report.symbol_table, 20)
        /\ RowsAreTop(FnDeltas, Report.fn_table, 20)
        /\ RemainingIsSum(CrateDeltas, Report.crate_table, 10,
              [i \in DOMAIN CrateDeltas |-> CrateSize(baseline, CrateDeltas[i][1])],
              [i \in DOMAIN CrateDeltas |-> CrateSize(current, CrateDeltas[i][1])])
        /\ RemainingIsSum(SymDeltas, Report.symbol_table, 20,
              [i \in DOMAIN SymDeltas |-> SymSize(baseline, SymDeltas[i][1])],
              [i \in DOMAIN SymDeltas |-> SymSize(current, SymDeltas[i][1])])
        /\ RemainingIsSum(FnDeltas, Report.fn_table, 20,
              [i \in DOMAIN FnDeltas |-> FnLines(baseline, FnDeltas[i][1])],
              [i \in DOMAIN FnDeltas |-> FnLines(current, FnDeltas[i][1])])
        /\ (is_some(Report.crate_table) /\ is_some(Report.crate_table[1].additional)) =>
              LET line == Report.crate_table[1].additional[1]
              IN  /\ line.baseline_fmt = format_bytes(line.baseline_sum)
                  /\ line.current_fmt = format_bytes(line.current_sum)
                  /\ line.change_str = RenderedBytes(line.diff)
        /\ (is_some(Report.symbol_table) /\ is_some(Report.symbol_table[1].additional)) =>
              LET line == Report.symbol_table[1].additional[1]
              IN  /\ line.baseline_fmt = format_bytes(line.baseline_sum)
                  /\ line.current_fmt = format_bytes(line.current_sum)
                  /\ line.change_str = RenderedBytes(line.diff)
        /\ (is_some(Report.fn_table) /\ is_some(Report.fn_table[1].additional)) =>
              LET line == Report.fn_table[1].additional[1]
              IN  /\ line.baseline_fmt = fmt_thousands(line.baseline_sum)
                  /\ line.current_fmt = fmt_thousands(line.current_sum)

\* all three tables are cut at their limit, and the entries left out of the
\* crate and symbol tables have before and after values
C9_Witness ==
    /\ Done
    /\ Len(CrateDeltas) > 10 /\ Len(SymDeltas) > 20 /\ Len(FnDeltas) > 20
    /\ is_some(Report.crate_table[1].additional)
    /\ is_some(Report.symbol_table[1].additional)
    /\ is_some(Report.fn_table[1].additional)
    /\ Report.crate_table[1].additional[1].baseline_sum > 0
    /\ Report.crate_table[1].additional[1].current_sum > 0
    /\ Report.symbol_table[1].additional[1].baseline_sum > 0
    /\ Report.symbol_table[1].additional[1].current_sum > 0

(***************************************************************************)
(* C10: the sign convention of the rendered changes.  A positive delta is  *)
(* rendered with "+", a negative one with "-", a zero one as "no change".  *)
(* As amended: this holds of the crate-count, symbol-count, text-size and  *)
(* LLVM-line totals, of the table rows of entries present in both builds   *)
(* and of the "additional ..." lines.  The row of an entry present in one  *)
(* build only reads NEW (added) or REMOVED (removed) without a signed      *)
(* amount, and the wall-duration change is signed only when it exceeds     *)
(* 0.01 s in magnitude and reads "no change" otherwise.                    *)
(***************************************************************************)
SignConvention(delta, rendered) ==
    /\ delta > 0 => RenderedSign(rendered) = "+"
    /\ delta < 0 => RenderedSign(rendered) = "-"
    /\ delta = 0 => RenderedSign(rendered) = "no change"

\* the rows of a table follow the convention, given the value of a name in
\* each build
RowsSigned(table, before(_), after(_)) ==
    is_some(table) =>
        \A i \in DOMAIN table[1].rows :
            SignConvention(after(table[1].rows[i].name) - before(table[1].rows[i].name),
                           table[1].rows[i].change_str)

\* the rows of entries of both builds follow the convention, the other rows
\* read NEW or REMOVED
RowsSignedOrOneSided(table, before(_), after(_), inBefore(_), inAfter(_)) ==
    is_some(table) =>
        \A i \in DOMAIN table[1].rows :
            LET row == table[1].rows[i]
            IN  IF inBefore(row.name) /\ inAfter(row.name)
                THEN SignConvention(after(row.name) - before(row.name), row.change_str)
                ELSE IF inAfter(row.name)
                THEN after(row.name) > 0 /\ row.change_str = NEW_STR
                ELSE before(row.name) > 0 /\ row.change_str = REMOVED_STR

AdditionalSigned(table) ==
    (is_some(table) /\ is_some(table[1].additional)) =>
        SignConvention(table[1].additional[1].current_sum - table[1].additional[1].baseline_sum,
                       table[1].additional[1].change_str)

TotalsSigned ==
    /\ SignConvention(Len(current.crates) - Len(baseline.crates), Report.num_crates.change)
    /\ SignConvention(Cardinality(current.deps_symbols) - Cardinality(baseline.deps_symbols),
                      Report.num_symbols.change)
    /\ SignConvention(current.text_size - baseline.text_size, Report.text_size.change)
    /\ SignConvention(num_llvm_lines(current) - num_llvm_lines(baseline),
                      Report.llvm_lines.change)

C10_SignConvention ==
    Done =>
        /\ TotalsSigned
        /\ LET delta == current.wall_duration - baseline.wall_duration
           IN  /\ delta > 10 => RenderedSign(Report.wall_duration.change) = "+"
               /\ delta < -10 => RenderedSign(Report.wall_duration.change) = "-"
               /\ (delta >= -10 /\ delta <= 10) =>
                     RenderedSign(Report.wall_duration.change) = "no change"
        /\ RowsSignedOrOneSided(Report.crate_table,
              LAMBDA n : CrateSize(baseline, n), LAMBDA n : CrateSize(current, n),
              LAMBDA n : n \in CrateNamesOf(baseline), LAMBDA n : n \in CrateNamesOf(current))
        /\ RowsSignedOrOneSided(Report.symbol_table,
              LAMBDA n : SymSize(baseline, n), LAMBDA n : SymSize(current, n),
              LAMBDA n : n \in NamesOf(baseline, "symbols"),
              LAMBDA n : n \in NamesOf(current, "symbols"))
        /\ RowsSignedOrOneSided(Report.fn_table,
              LAMBDA n : FnLines(baseline, n), LAMBDA n : FnLines(current, n),
              LAMBDA n : n \in NamesOf(baseline, "llvm_functions"),
              LAMBDA n : n \in NamesOf(current, "llvm_functions"))
        /\ AdditionalSigned(Report.crate_table)
        /\ AdditionalSigned(Report.symbol_table)
        /\ AdditionalSigned(Report.fn_table)

\* totals that shrink, totals that grow, and in one table a row
\* that grows, a row that shrinks and a REMOVED row
C10_Witness ==
    /\ Done
    /\ RenderedSign(Report.num_crates.change) = "-"
    /\ RenderedSign(Report.num_symbols.change) = "-"
    /\ RenderedSign(Report.llvm_lines.change) = "+"
    /\ RenderedSign(Report.wall_duration.change) = "+"
    /\ is_some(Report.symbol_table)
    /\ \E i \in DOMAIN Report.symbol_table[1].rows :
          RenderedSign(Report.symbol_table[1].rows[i].change_str) = "+"
    /\ \E i \in DOMAIN Report.symbol_table[1].rows :
          RenderedSign(Report.symbol_table[1].rows[i].change_str) = "-"
    /\ \E i \in DOMAIN Report.symbol_table[1].rows :
          Report.symbol_table[1].rows[i].change_str = REMOVED_STR

\* a wall duration that differs by less than 0.01 s
C10_WallWitness ==
    /\ Done
    /\ current.wall_duration - baseline.wall_duration = 4
    /\ Report.wall_duration.change = Paren(NO_CHANGE)

\* the claim as stated, of every rendered change
C10_EveryChangeSigned ==
    Done =>
        /\ TotalsSigned
        /\ SignConvention(current.wall_duration - baseline.wall_duration,
                          Report.wall_duration.change)
        /\ RowsSigned(Report.crate_table,
              LAMBDA n : CrateSize(baseline, n), LAMBDA n : CrateSize(current, n))
        /\ RowsSigned(Report.symbol_table,
              LAMBDA n : SymSize(baseline, n), LAMBDA n : SymSize(current, n))
        /\ RowsSigned(Report.fn_table,
              LAMBDA n : FnLines(baseline, n), LAMBDA n : FnLines(current, n))
        /\ AdditionalSigned(Report.crate_table)
        /\ AdditionalSigned(Report.symbol_table)
        /\ AdditionalSigned(Report.fn_table)

(***************************************************************************)
(* C15: the symbol count of the totals is the number of symbols of the     *)
(* build, i.e. the number of entries of its aggregate all_symbols view, so *)
(* a current build with exactly one symbol more than the baseline shows a  *)
(* symbol-count change of +1.                                              *)
(***************************************************************************)
NumSymbolsOf(ctx) == Cardinality(DOMAIN all_symbols(ctx))

C15_SymbolCountIsAllSymbols ==
    Done =>
        /\ Report.num_symbols.value = to_string(NumSymbolsOf(current))
        /\ Report.num_symbols.change =
              unitless_diff(NumSymbolsOf(baseline), NumSymbolsOf(current))
        /\ NumSymbolsOf(current) = NumSymbolsOf(baseline) + 1 =>
              Report.num_symbols.change = Paren(<<UP, " ", "+", "1">>)

\* what the totals line counts instead: the entries of deps_symbols
C15_SymbolCountIsDepsSymbols ==
    Done =>
        /\ Report.num_symbols.value = to_string(Cardinality(current.deps_symbols))
        /\ Report.num_symbols.change =
              unitless_diff(Cardinality(baseline.deps_symbols),
                            Cardinality(current.deps_symbols))

\* one symbol more in current, and the totals line reads "no change"
C15_Witness ==
    /\ Done
    /\ NumSymbolsOf(current) = NumSymbolsOf(baseline) + 1
    /\ Report.num_symbols.change = Paren(NO_CHANGE)

(***************************************************************************)
(* C16: functions whose name starts with autocfg_ are not counted: none is *)
(* a row of the IR-function delta list, and the count and the sums of its  *)
(* "additional ..." line are those of the changed functions that are not   *)
(* autocfg_ probes and not rows.                                           *)
(***************************************************************************)
\* the functions other than autocfg_ probes whose line count changed
ChangedAppFns ==
    {n \in AllFnNames \ AutocfgNames : FnLines(baseline, n) # FnLines(current, n)}

C16_AutocfgNotCounted ==
    Done =>
        /\ \A i \in DOMAIN FnDeltas : FnDeltas[i][1] \notin AutocfgNames
        /\ RowNames(Report.fn_table) \cap AutocfgNames = {}
        /\ RowNames(Report.fn_table) \subseteq ChangedAppFns
        /\ TableEntries(Report.fn_table) = Cardinality(ChangedAppFns)
        /\ (is_some(Report.fn_table) /\ is_some(Report.fn_table[1].additional)) =>
              LET line == Report.fn_table[1].additional[1]
                  rest == ChangedAppFns \ RowNames(Report.fn_table)
              IN  /\ line.count = Cardinality(rest)
                  /\ line.baseline_sum = SumValues([n \in rest |-> FnLines(baseline, n)])
                  /\ line.current_sum = SumValues([n \in rest |-> FnLines(current, n)])

\* an autocfg_ probe changed between two builds whose function table is cut
C16_Witness ==
    /\ Done
    /\ \E n \in AutocfgNames : FnLines(baseline, n) # FnLines(current, n)
    /\ is_some(Report.fn_table)
    /\ is_some(Report.fn_table[1].additional)

\* an autocfg_ probe is the only function that changed: no table at all
C16_OnlyProbeWitness ==
    /\ Done
    /\ \E n \in AutocfgNames : FnLines(baseline, n) # FnLines(current, n)
    /\ ChangedAppFns = {}
    /\ is_none(Report.fn_table)

(***************************************************************************)
(* str: a string is the sequence of its characters                         *)
(***************************************************************************)
\* str::starts_with
starts_with(s, prefix) ==
    Len(s) >= Len(prefix) /\ SubSeq(s, 1, Len(prefix)) = prefix

\* str::find from the 0-based offset i: the offset of the first match
RECURSIVE find_from(_, _, _)
find_from(s, pat, i) ==
    IF i + Len(pat) > Len(s) THEN None
    ELSE IF SubSeq(s, i + 1, i + Len(pat)) = pat THEN Some(i)
    ELSE find_from(s, pat, i + 1)

find(s, pat) == find_from(s, pat, 0)

\* str::split(pat).collect(): never empty, the matches taken left to right
RECURSIVE split(_, _)
split(s, pat) ==
    LET p == find(s, pat)
    IN  IF is_none(p) THEN <<s>>
        ELSE <<SubSeq(s, 1, p[1])>> \o split(SubSeq(s, p[1] + Len(pat) + 1, Len(s)), pat)

\* &s[from..] with a 0-based offset
slice_from(s, from) == SubSeq(s, from + 1, Len(s))

\* &s[..to] with a 0-based offset
slice_to(s, to) == SubSeq(s, 1, to)

Lowercase == {"a", "b", "c", "d", "e", "f", "g", "h", "i", "j", "k", "l", "m",
              "n", "o", "p", "q", "r", "s", "t", "u", "v", "w", "x", "y", "z"}

Uppercase == {"A", "B", "C", "D", "E", "F", "G", "H", "I", "J", "K", "L", "M",
              "N", "O", "P", "Q", "R", "S", "T", "U", "V", "W", "X", "Y", "Z"}

Numeric == {"0", "1", "2", "3", "4", "5", "6", "7", "8", "9"}

is_numeric(c) == c \in Numeric

is_alphanumeric(c) == c \in Lowercase \cup Uppercase \cup Numeric

is_uppercase(c) == c \in Uppercase

(***************************************************************************)
(* extract_crate_from_function                                             *)
(***************************************************************************)
Str_core == <<"c", "o", "r", "e">>

Str_alloc == <<"a", "l", "l", "o", "c">>

Str_std == <<"s", "t", "d">>

Str_proc_macro == <<"p", "r", "o", "c", "_", "m", "a", "c", "r", "o">>

Str_test == <<"t", "e", "s", "t">>

Str_unknown == <<"u", "n", "k", "n", "o", "w", "n">>

Str_as == <<" ", "a", "s", " ">>

Str_sep == <<":", ":">>

\* the name the rest of the function works on
cleaned(name) ==
    IF starts_with(name, <<"<">>)
    THEN LET as_pos == find(name, Str_as)
         IN  IF is_some(as_pos)
             THEN LET after_as == slice_from(name, as_pos[1] + 4)
                      end1     == find(after_as, <<">", ":", ":">>)
                      end2     == find(after_as, <<">">>)
                  IN  IF is_some(end1) THEN slice_to(after_as, end1[1])
                      ELSE IF is_some(end2) THEN slice_to(after_as, end2[1])
                      ELSE after_as
             ELSE LET space_pos == find(name, <<" ">>)
                  IN  IF is_some(space_pos) THEN slice_from(name, space_pos[1] + 1)
                      ELSE name
    ELSE name

std_crates == {Str_core, Str_alloc, Str_std, Str_proc_macro, Str_test}

\* the test of the "known crate pattern" on one part of the path
crate_pattern(part) ==
    /\ part # <<>>
    /\ ~starts_with(part, <<"<">>)
    /\ ~starts_with(part, <<"_">>)
    /\ ~(\A i \in DOMAIN part : is_numeric(part[i]))
    /\ \A i \in DOMAIN part : is_alphanumeric(part[i]) \/ part[i] = "_"

\* for part in parts: the first part that looks like a crate name
RECURSIVE scan_parts(_)
scan_parts(parts) ==
    IF parts = <<>> THEN Str_unknown
    ELSE IF crate_pattern(Head(parts)) /\ ~is_uppercase(Head(parts)[1])
    THEN Head(parts)
    ELSE scan_parts(Tail(parts))

\* the last part of the path
last_part(parts) == parts[Len(parts)]

\* parts[0]
first_part(parts) == parts[1]

extract_crate_from_function(name) ==
    LET parts == split(cleaned(name), Str_sep)
    IN  IF parts = <<>> THEN Str_unknown
        ELSE IF first_part(parts) \in std_crates THEN first_part(parts)
        ELSE IF crate_pattern(first_part(parts)) THEN first_part(parts)
        ELSE scan_parts(parts)

(***************************************************************************)
(* The function names extract_crate_from_function is applied to            *)
(***************************************************************************)
MaxSegments == 2

Str_mycrate == <<"m", "y", "c", "r", "a", "t", "e">>

Str_other == <<"o", "t", "h", "e", "r">>

Str_Foo == <<"F", "o", "o">>

Str_priv == <<"_", "p", "r", "i", "v">>

Str_42 == <<"4", "2">>

Str_fmt == <<"f", "m", "t">>

Str_Debug == <<"D", "e", "b", "u", "g">>

\* segments joined by "::"
RECURSIVE Join(_)
Join(segs) ==
    IF Len(segs) = 1 THEN segs[1] ELSE segs[1] \o Str_sep \o Join(Tail(segs))

\* the paths of 1..k segments taken from W
Paths(W, k) == {Join(p) : p \in UNION {[1..n -> W] : n \in 1..k}}

AttrWords == {Str_core, Str_alloc, Str_std, Str_proc_macro, Str_test,
              Str_mycrate, Str_other, Str_Foo, Str_priv, Str_42, Str_fmt}

TypeWords == {Str_mycrate, Str_core, Str_Foo, Str_priv}

TraitWords == {Str_core, Str_other, Str_Debug}

\* the crates the build depends on, by name
KnownDeps == {Str_mycrate}

PlainNames == Paths(AttrWords, MaxSegments)

\* <T as Trait>::fmt, <T as Trait> and the unterminated <T as Trait
TraitImplNames ==
    {<<"<">> \o T \o Str_as \o Tr \o tl :
        T \in Paths(TypeWords, MaxSegments),
        Tr \in Paths(TraitWords, MaxSegments),
        tl \in {<<">", ":", ":", "f", "m", "t">>, <<">">>, <<>>}}

\* <T>::fmt and <dyn Trait>::fmt
GenericNames ==
    {<<"<">> \o T \o <<">", ":", ":", "f", "m", "t">> : T \in Paths(TypeWords, MaxSegments)}
    \cup {<<"<", "d", "y", "n", " ">> \o Tr \o <<">", ":", ":", "f", "m", "t">> : Tr \in Paths(TraitWords, MaxSegments)}

ExampleNames == {<<"<", "m", "y", "c", "r", "a", "t", "e", ":", ":", "F", "o", "o", " ", "a", "s", " ", "c", "o", "r", "e", ":", ":", "f", "m", "t", ":", ":", "D", "e", "b", "u", "g", ">", ":", ":", "f", "m", "t">>, <<>>, <<"<", "<">>}

FuncNames == PlainNames \cup TraitImplNames \cup GenericNames \cup ExampleNames

(***************************************************************************)
(* The state machine: one call of extract_crate_from_function.             *)
(***************************************************************************)
ReportIdle == baseline = <<>> /\ current = <<>> /\ pc = "idle" /\ out = None

AttrInit ==
    /\ func_name \in FuncNames
    /\ attributed = None
    /\ ReportIdle
    /\ MainIdle
    /\ CallIdle
    /\ GitIdle

ExtractCrate ==
    /\ is_none(attributed)
    /\ attributed' = Some(extract_crate_from_function(func_name))
    /\ UNCHANGED <<func_name, baseline, current, pc, out, main_vars, call_vars, git_vars>>

AttrNext == ExtractCrate

AttrSpec == AttrInit /\ [][AttrNext]_vars

Attributed == is_some(attributed)

CrateName == attributed[1]

(***************************************************************************)
(* Reference readings of a function name                                   *)
(***************************************************************************)
\* the first "::"-separated segment of a path
FirstSegment(path) == split(path, Str_sep)[1]

\* the name has the form <T as Trait>::method
IsTraitImpl(name) ==
    /\ starts_with(name, <<"<">>)
    /\ is_some(find(name, Str_as))
    /\ is_some(find(slice_from(name, find(name, Str_as)[1] + 4), <<">", ":", ":">>))

\* T and Trait of <T as Trait>::method
TraitImplType(name) == SubSeq(name, 2, find(name, Str_as)[1])

TraitImplTrait(name) ==
    LET after_as == slice_from(name, find(name, Str_as)[1] + 4)
    IN  slice_to(after_as, find(after_as, <<">", ":", ":">>)[1])

Str_bracket_unknown == <<"[", "u", "n", "k", "n", "o", "w", "n", "]">>

(***************************************************************************)
(* C17: for a function name of the form <T as Trait>::method the crate     *)
(* returned is the first "::"-separated segment of the concrete type T,    *)
(* not of the trait: <mycrate::Foo as core::fmt::Debug>::fmt is attributed *)
(* to mycrate.                                                             *)
(***************************************************************************)
C17_TraitImplAttributedToType ==
    (Attributed /\ IsTraitImpl(func_name)) =>
        CrateName = FirstSegment(TraitImplType(func_name))

\* what the function returns for these names: the first segment of the trait
\* whenever that segment is a standard-library crate or looks like a crate
C17_TraitImplAttributedToTrait ==
    (Attributed /\ IsTraitImpl(func_name)) =>
        LET seg == FirstSegment(TraitImplTrait(func_name))
        IN  (seg \in std_crates \/ crate_pattern(seg)) => CrateName = seg

\* the example of the claim, attributed to core
C17_Witness ==
    /\ Attributed
    /\ func_name = <<"<", "m", "y", "c", "r", "a", "t", "e", ":", ":", "F", "o", "o", " ", "a", "s", " ", "c", "o", "r", "e", ":", ":", "f", "m", "t", ":", ":", "D", "e", "b", "u", "g", ">", ":", ":", "f", "m", "t">>
    /\ IsTraitImpl(func_name)
    /\ FirstSegment(TraitImplType(func_name)) = Str_mycrate
    /\ CrateName = Str_core

(***************************************************************************)
(* C18: a name whose first path segment is neither a standard-library      *)
(* crate (core, alloc, std, proc_macro, test) nor a known dependency is    *)
(* attributed to the bucket "[unknown]"; a first segment that is not a     *)
(* standard-library crate is returned only when it is a known dependency.  *)
(***************************************************************************)
C18_UnknownFallback ==
    Attributed =>
        LET seg == FirstSegment(cleaned(func_name))
        IN  /\ seg \notin (std_crates \cup KnownDeps) => CrateName = Str_bracket_unknown
            /\ CrateName \notin (std_crates \cup {Str_bracket_unknown}) =>
                  CrateName \in KnownDeps

\* the fallback as coded: the bucket is "unknown", and it is reached only
\* when no part of the path looks like a crate name
C18_FallbackAsCoded ==
    Attributed =>
        /\ CrateName # Str_bracket_unknown
        /\ crate_pattern(FirstSegment(cleaned(func_name))) =>
              CrateName = FirstSegment(cleaned(func_name))

\* a first segment that is no dependency is returned as the crate
C18_Witness ==
    /\ Attributed
    /\ FirstSegment(cleaned(func_name)) = Str_other
    /\ Str_other \notin KnownDeps
    /\ CrateName = Str_other

\* the fallback bucket is reached, and reads "unknown"
C18_BucketWitness ==
    /\ Attributed
    /\ CrateName = Str_unknown
    /\ \A i \in DOMAIN split(cleaned(func_name), Str_sep) :
          split(cleaned(func_name), Str_sep)[i] # Str_unknown

(***************************************************************************)
(* C19: when the first path segment of the cleaned name is one of core,    *)
(* alloc, std, proc_macro or test, that segment is returned as the crate   *)
(* name, whatever the later segments are: the standard-library rule wins   *)
(* over the dependency/identifier rule.                                    *)
(***************************************************************************)
C19_StdCrateWins ==
    Attributed =>
        LET seg == FirstSegment(cleaned(func_name))
        IN  seg \in {Str_core, Str_alloc, Str_std, Str_proc_macro, Str_test} =>
                CrateName = seg

\* a standard-library first segment followed by the name of a dependency
C19_Witness ==
    /\ Attributed
    /\ func_name = Join(<<Str_std, Str_mycrate>>)
    /\ CrateName = Str_std

\* the same with a trait implementation: the cleaned name starts with core,
\* the type is of the dependency
C19_TraitWitness ==
    /\ Attributed
    /\ IsTraitImpl(func_name)
    /\ FirstSegment(TraitImplType(func_name)) \in KnownDeps
    /\ FirstSegment(cleaned(func_name)) = Str_core
    /\ CrateName = Str_core

(***************************************************************************)
(* main.rs: formatting                                                     *)
(***************************************************************************)
KIB == 1024

\* format_bytes of main.rs: two decimals, binary unit names
main_format_bytes(bytes) ==
    IF bytes >= KIB * KIB * KIB
    THEN FmtFixed(bytes, KIB * KIB * KIB, 2) \o <<" ", "G", "i", "B">>
    ELSE IF bytes >= KIB * KIB
    THEN FmtFixed(bytes, KIB * KIB, 2) \o <<" ", "M", "i", "B">>
    ELSE IF bytes >= KIB
    THEN FmtFixed(bytes, KIB, 2) \o <<" ", "K", "i", "B">>
    ELSE to_string(bytes) \o <<" ", "B">>

format_size_diff(diff) ==
    IF diff > 0 THEN <<"+">> \o main_format_bytes(abs(diff))
    ELSE IF diff < 0 THEN <<"-">> \o main_format_bytes(abs(diff))
    ELSE NO_CHANGE

\* format!("{:w$}", s) for a number: right-aligned in `width` columns
RECURSIVE PadLeft(_, _)
PadLeft(s, width) == IF Len(s) >= width THEN s ELSE PadLeft(<<" ">> \o s, width)

\* format!("{:.2}s", d) of a duration given in hundredths of a second
fmt_secs(d) == FmtFixed(d, 100, 2) \o <<"s">>

\* format!("{:+.2}s", d)
fmt_secs_signed(d) ==
    (IF d < 0 THEN <<"-">> ELSE <<"+">>) \o FmtFixed(abs(d), 100, 2) \o <<"s">>

(***************************************************************************)
(* main.rs: command line                                                   *)
(***************************************************************************)
\* args[i].starts_with('-') for the arguments of the model
arg_starts_with_dash(a) ==
    a \in {"--markdown", "-m", "--verbose", "-v", "--help", "-h", "--bogus"}

\* the while loop over args[1..]; args[0], the program name, is left out
RECURSIVE parse_args_loop(_, _, _, _)
parse_args_loop(a, i, mode, path) ==
    IF i > Len(a) THEN [markdown_mode |-> mode, markdown_output_path |-> path]
    ELSE IF a[i] \in {"--markdown", "-m"}
    THEN IF i + 1 <= Len(a) /\ ~arg_starts_with_dash(a[i + 1])
         THEN parse_args_loop(a, i + 2, TRUE, Some(a[i + 1]))
         ELSE parse_args_loop(a, i + 1, TRUE, path)
    ELSE parse_args_loop(a, i + 1, mode, path)

parse_args(a) == parse_args_loop(a, 1, FALSE, None)

\* the exit code of std::process::exit(1) and of main returning Err
EXIT_FAILURE == 1

\* the exit code of main returning Ok(())
EXIT_SUCCESS == 0

(***************************************************************************)
(* cli.rs: CliConfig::from_args, Ok(config) or Err(message)                *)
(***************************************************************************)
Ok(v) == [ok |-> TRUE, value |-> v]

Err(e) == [ok |-> FALSE, error |-> e]

\* std::process::exit(code) inside the call: nothing is returned
ProcessExit(code) == [ok |-> FALSE, exited |-> code]

\* the next argument exists, whatever it is
next_exists(a, i) == i + 1 <= Len(a)

\* i + 1 < args.len() && !args[i + 1].starts_with('-')
next_is_path(a, i) == i + 1 <= Len(a) /\ ~arg_starts_with_dash(a[i + 1])

RECURSIVE from_args_loop(_, _, _, _)
from_args_loop(a, i, markdown_output, verbose) ==
    IF i > Len(a) THEN Ok([markdown_output |-> markdown_output, verbose |-> verbose])
    ELSE IF a[i] \in {"--markdown", "-m"}
    THEN IF next_is_path(a, i)
         THEN from_args_loop(a, i + 2, Some(a[i + 1]), verbose)
         ELSE Err("--markdown flag requires a file path argument")
    ELSE IF a[i] \in {"--verbose", "-v"}
    THEN from_args_loop(a, i + 1, markdown_output, TRUE)
    ELSE IF a[i] \in {"--help", "-h"}
    THEN ProcessExit(EXIT_SUCCESS)
    ELSE IF arg_starts_with_dash(a[i]) THEN Err("Unknown argument")
    ELSE from_args_loop(a, i + 1, markdown_output, verbose)

from_args(a) == from_args_loop(a, 1, None, FALSE)

(***************************************************************************)
(* main.rs: the top crates and the per-crate build-time changes            *)
(***************************************************************************)
\* the orders in which a HashMap or HashSet with the keys S can be iterated
HashOrders(S) ==
    {o \in [1..Cardinality(S) -> S] : \A i, j \in DOMAIN o : i # j => o[i] # o[j]}

\* for symbol in symbols: *crate_sizes.entry(crate_name).or_insert(0) += size
crate_sizes_of(symbols) ==
    [c \in {symbols[i][1] : i \in DOMAIN symbols} |->
        SumSeq([i \in DOMAIN symbols |-> IF symbols[i][1] = c THEN symbols[i][2] ELSE 0])]

\* crate_sizes.iter().collect() in the iteration order `order`, then
\* sort_by_key(Reverse(size))
crate_list_of(crate_sizes, order) ==
    sort_by_key_reverse([i \in DOMAIN order |-> <<order[i], crate_sizes[order[i]]>>],
                        [i \in DOMAIN order |-> crate_sizes[order[i]]])

TOP_CRATES_SHOWN == 10

\* the rows of "Top 10 Crates by Size"
top_crates_rows(crate_list, text_size) ==
    LET shown == take(crate_list, TOP_CRATES_SHOWN)
    IN  [i \in DOMAIN shown |->
            [name    |-> shown[i][1],
             size    |-> main_format_bytes(shown[i][2]),
             percent |-> PadLeft(FmtFixed(shown[i][2] * 100, text_size, 1), 5) \o <<"%">>]]

\* for timing in timing_data: map.insert(crate_name, duration)
RECURSIVE crate_times_of(_)
crate_times_of(timing_data) ==
    IF timing_data = <<>> THEN <<>>
    ELSE LET rest == crate_times_of(SubSeq(timing_data, 1, Len(timing_data) - 1))
             last == timing_data[Len(timing_data)]
         IN  [c \in DOMAIN rest \cup {last[1]} |-> IF c = last[1] THEN last[2] ELSE rest[c]]

\* the sort key of crate_time_changes
time_diff_key(change) ==
    IF is_some(change[2]) /\ is_some(change[3]) THEN abs(change[3][1] - change[2][1])
    ELSE IF is_some(change[3]) THEN change[3][1]
    ELSE IF is_some(change[2]) THEN change[2][1]
    ELSE 0

\* all_crate_names.into_iter() in the iteration order `order`, mapped to
\* (name, before, after), then sort_by(|a, b| b_diff.partial_cmp(&a_diff))
crate_time_changes_of(main_crate_times, current_crate_times, order) ==
    LET unsorted == [i \in DOMAIN order |->
                        <<order[i], MapGet(main_crate_times, order[i]),
                          MapGet(current_crate_times, order[i])>>]
    IN  sort_by_key_reverse(unsorted, [i \in DOMAIN unsorted |-> time_diff_key(unsorted[i])])

TIME_CHANGES_SHOWN == 15

\* one row of the build-time table of the markdown report
time_change_row(change) ==
    [name   |-> change[1],
     before |-> IF is_some(change[2]) THEN fmt_secs(change[2][1]) ELSE <<"-">>,
     after  |-> IF is_some(change[3]) THEN fmt_secs(change[3][1]) ELSE <<"-">>,
     change |-> IF is_some(change[2]) /\ is_some(change[3])
                THEN fmt_secs_signed(change[3][1] - change[2][1])
                ELSE IF is_some(change[3]) THEN <<"+">> \o fmt_secs(change[3][1])
                ELSE <<"-">> \o fmt_secs(change[2][1])]

time_change_rows(crate_time_changes) ==
    LET shown == take(crate_time_changes, TIME_CHANGES_SHOWN)
    IN  [i \in DOMAIN shown |-> time_change_row(shown[i])]

\* one row of the build-time list printed on the terminal
text_time_change_row(change) ==
    [name   |-> change[1],
     before |-> IF is_some(change[2]) THEN fmt_secs(change[2][1]) ELSE <<" ">>,
     after  |-> IF is_some(change[3]) THEN fmt_secs(change[3][1]) ELSE <<"0", "s">>,
     change |-> IF is_some(change[2]) /\ is_some(change[3])
                THEN LET diff == change[3][1] - change[2][1]
                     IN  IF diff > 0 THEN <<"+">> \o fmt_secs(diff)
                         ELSE (IF diff < 0 THEN <<"-">> ELSE <<>>) \o fmt_secs(abs(diff))
                ELSE IF is_some(change[3]) THEN <<"+">> \o fmt_secs(change[3][1])
                ELSE <<"-">> \o fmt_secs(change[2][1])]

text_time_change_rows(crate_time_changes) ==
    LET shown == take(crate_time_changes, TIME_CHANGES_SHOWN)
    IN  [i \in DOMAIN shown |-> text_time_change_row(shown[i])]

\* the three lines of "Size Comparison"
size_comparison(main, cur) ==
    [file_size  |-> <<main_format_bytes(main.file_size), main_format_bytes(cur.file_size),
                      format_size_diff(cur.file_size - main.file_size)>>,
     text_size  |-> <<main_format_bytes(main.text_size), main_format_bytes(cur.text_size),
                      format_size_diff(cur.text_size - main.text_size)>>,
     build_time |-> <<fmt_secs(main.wall_time), fmt_secs(cur.wall_time),
                      fmt_secs_signed(cur.wall_time - main.wall_time)>>]

\* a build_and_analyze that hands out what it has when a step failed
build_and_analyze_partial(version) == Ok(version.result)

\* build_and_analyze: the result of the build and of the analysis of one
\* version, or the error of the step that failed
build_and_analyze(version) ==
    IF version.outcome = "ok" THEN Ok(version.result) ELSE Err(version.outcome)

(***************************************************************************)
(* The command lines and the environments main runs in                     *)
(***************************************************************************)
MaxArgs == 2

MaxSymbols == 2

ArgTokens == {"--markdown", "-m", "--bogus", "out.md"}

ArgLists == UNION {[1..n -> ArgTokens] : n \in 0..MaxArgs}

Outcomes == {"ok", "build_failed", "analysis_failed"}

Durations == {50, 150}

\* the symbols of a binary, each with the crate it is attributed to
SymbolLists == UNION {[1..n -> CrateNames \X ByteSizes] : n \in 0..MaxSymbols}

\* the per-crate timings of a build: each crate at most once, or one crate
\* reported twice
TimingLists ==
    {SelectSeq([i \in 1..2 |-> <<i, d[i]>>], LAMBDA e : e[2] # 0) :
        d \in [1..2 -> Durations \cup {0}]}
    \cup {<<<<1, 50>>, <<1, 150>>>>}

MkResult(symbols, timing_data) ==
    LET text == SumSeq([i \in DOMAIN symbols |-> symbols[i][2]]) + 24
    IN  [symbols     |-> symbols,
         file_size   |-> text + 1000,
         text_size   |-> text,
         timing_data |-> timing_data,
         wall_time   |-> SumSeq([i \in DOMAIN timing_data |-> timing_data[i][2]])]

BaseSymbols == <<<<1, 100>>, <<2, 50>>>>

BaseTiming == <<<<1, 150>>, <<2, 50>>>>

MkEnv(facet_repo, main_manifest, current_outcome, main_outcome, symbols, main_timing, current_timing) ==
    [facet_repo    |-> facet_repo,
     main_manifest |-> main_manifest,
     current       |-> [outcome |-> current_outcome,
                        result  |-> MkResult(symbols, current_timing)],
     main          |-> [outcome |-> main_outcome,
                        result  |-> MkResult(BaseSymbols, main_timing)]]

BaseEnv == MkEnv(TRUE, TRUE, "ok", "ok", BaseSymbols, BaseTiming, BaseTiming)

\* runs that stop early: no facet repository, no manifest, a failing step
OutcomeEnvs ==
    {MkEnv(f, m, co, mo, BaseSymbols, BaseTiming, BaseTiming) :
        f \in BOOLEAN, m \in BOOLEAN, co \in Outcomes, mo \in Outcomes}

SizeEnvs == {MkEnv(TRUE, TRUE, "ok", "ok", s, BaseTiming, BaseTiming) : s \in SymbolLists}

TimingEnvs ==
    {MkEnv(TRUE, TRUE, "ok", "ok", BaseSymbols, mt, ct) :
        mt \in TimingLists, ct \in TimingLists}

Envs == OutcomeEnvs \cup SizeEnvs \cup TimingEnvs

(***************************************************************************)
(* The state machine: main(), one action per step, and a second run of the *)
(* program on the same command line and environment.                       *)
(***************************************************************************)
other_vars == <<baseline, current, pc, out, attr_vars, call_vars, git_vars>>

MainInit ==
    /\ \/ args \in ArgLists /\ env = BaseEnv
       \/ args \in {<<>>, <<"--markdown", "out.md">>} /\ env \in Envs
    /\ mpc = "parse"
    /\ markdown_mode = FALSE /\ markdown_output_path = None
    /\ current_result = None /\ main_result = None
    /\ fs = {} /\ stdout = <<>> /\ md_file = None
    /\ exit_code = None /\ first_run = None
    /\ ReportIdle
    /\ AttrIdle
    /\ CallIdle
    /\ GitIdle

\* the argument loop and the check of --markdown's path
ParseArgs ==
    /\ mpc = "parse"
    /\ LET cfg == parse_args(args)
       IN  /\ markdown_mode' = cfg.markdown_mode
           /\ markdown_output_path' = cfg.markdown_output_path
           /\ IF cfg.markdown_mode /\ is_none(cfg.markdown_output_path)
              THEN /\ exit_code' = Some(EXIT_FAILURE)
                   /\ mpc' = "exit"
                   /\ stdout' = stdout
              ELSE /\ exit_code' = exit_code
                   /\ mpc' = "setup"
                   /\ stdout' = IF cfg.markdown_mode THEN stdout
                                ELSE Append(stdout, [section |-> "banner"])
    /\ UNCHANGED <<args, env, current_result, main_result, fs, md_file, first_run,
                   other_vars>>

\* the repository and the manifest are located, the target directory created
Setup ==
    /\ mpc = "setup"
    /\ fs' = fs \cup {"target_dir"}
    /\ mpc' = "build_current"
    /\ UNCHANGED <<args, env, markdown_mode, markdown_output_path, current_result,
                   main_result, stdout, md_file, exit_code, first_run, other_vars>>

\* let current_result = build_and_analyze(.., "current")?;
BuildCurrent ==
    /\ mpc = "build_current"
    /\ LET r == build_and_analyze(env.current)
       IN  IF r.ok
           THEN current_result' = Some(r.value) /\ mpc' = "top_crates"
                /\ exit_code' = exit_code
           ELSE current_result' = current_result /\ mpc' = "exit"
                /\ exit_code' = Some(EXIT_FAILURE)
    /\ UNCHANGED <<args, env, markdown_mode, markdown_output_path, main_result, fs,
                   stdout, md_file, first_run, other_vars>>

\* "Top 10 Crates by Size"
TopCrates ==
    /\ mpc = "top_crates"
    /\ LET crate_sizes == crate_sizes_of(current_result[1].symbols)
       IN  \E order \in HashOrders(DOMAIN crate_sizes) :
              stdout' = Append(stdout,
                  [section |-> "top_crates",
                   rows    |-> top_crates_rows(crate_list_of(crate_sizes, order),
                                               current_result[1].text_size)])
    /\ mpc' = "cleanup_current"
    /\ UNCHANGED <<args, env, markdown_mode, markdown_output_path, current_result,
                   main_result, fs, md_file, exit_code, first_run, other_vars>>

\* the target directory of the current build is removed; without a facet
\* repository the run ends here
CleanupCurrent ==
    /\ mpc = "cleanup_current"
    /\ fs' = fs \ {"target_dir"}
    /\ IF env.facet_repo
       THEN mpc' = "workspace" /\ exit_code' = exit_code /\ stdout' = stdout
       ELSE mpc' = "exit" /\ exit_code' = Some(EXIT_SUCCESS)
            /\ stdout' = Append(stdout, [section |-> "skipping_comparison"])
    /\ UNCHANGED <<args, env, markdown_mode, markdown_output_path, current_result,
                   main_result, md_file, first_run, other_vars>>

\* the comparison workspace with its two worktrees, and the target directory
\* of the main build when the main branch has the manifest
CreateWorkspace ==
    /\ mpc = "workspace"
    /\ IF env.main_manifest
       THEN /\ fs' = fs \cup {"workspace_dir", "facet_worktree", "limpid_worktree",
                              "main_target_dir"}
            /\ mpc' = "build_main" /\ exit_code' = exit_code
            /\ stdout' = Append(stdout, [section |-> "comparing"])
       ELSE /\ fs' = fs \cup {"workspace_dir", "facet_worktree", "limpid_worktree"}
            /\ mpc' = "exit" /\ exit_code' = Some(EXIT_SUCCESS)
            /\ stdout' = stdout \o <<[section |-> "comparing"],
                                     [section |-> "manifest_not_found"]>>
    /\ UNCHANGED <<args, env, markdown_mode, markdown_output_path, current_result,
                   main_result, md_file, first_run, other_vars>>

\* let main_result = build_and_analyze(.., "main")?;
BuildMain ==
    /\ mpc = "build_main"
    /\ LET r == build_and_analyze(env.main)
       IN  IF r.ok
           THEN main_result' = Some(r.value) /\ mpc' = "compare"
                /\ exit_code' = exit_code
           ELSE main_result' = main_result /\ mpc' = "exit"
                /\ exit_code' = Some(EXIT_FAILURE)
    /\ UNCHANGED <<args, env, markdown_mode, markdown_output_path, current_result, fs,
                   stdout, md_file, first_run, other_vars>>

\* "Size Comparison": file size, text size, build time
SizeComparison ==
    /\ mpc = "compare"
    /\ stdout' = Append(stdout,
           [section |-> "size_comparison",
            lines   |-> size_comparison(main_result[1], current_result[1])])
    /\ mpc' = IF markdown_mode THEN "markdown" ELSE "text"
    /\ UNCHANGED <<args, env, markdown_mode, markdown_output_path, current_result,
                   main_result, fs, md_file, exit_code, first_run, other_vars>>

\* the names of the crates timed in either build
all_crate_names ==
    DOMAIN crate_times_of(main_result[1].timing_data)
    \cup DOMAIN crate_times_of(current_result[1].timing_data)

\* markdown mode: the report is written to the given path
WriteMarkdown ==
    /\ mpc = "markdown"
    /\ \E order \in HashOrders(all_crate_names) :
          md_file' = Some(
              [path               |-> markdown_output_path[1],
               size_comparison    |-> size_comparison(main_result[1], current_result[1]),
               crate_time_changes |-> time_change_rows(
                   crate_time_changes_of(crate_times_of(main_result[1].timing_data),
                                         crate_times_of(current_result[1].timing_data),
                                         order))])
    /\ mpc' = "cleanup_main"
    /\ UNCHANGED <<args, env, markdown_mode, markdown_output_path, current_result,
                   main_result, fs, stdout, exit_code, first_run, other_vars>>

\* terminal mode: crate size changes, crate build time changes, symbols; the
\* size and symbol sections print the lists of substance's comparison
TextReport ==
    /\ mpc = "text"
    /\ \E order \in HashOrders(all_crate_names) :
          stdout' = stdout \o
              <<[section |-> "crate_size_changes"],
                [section |-> "crate_time_changes",
                 rows    |-> text_time_change_rows(
                     crate_time_changes_of(crate_times_of(main_result[1].timing_data),
                                           crate_times_of(current_result[1].timing_data),
                                           order))],
                [section |-> "symbol_changes"],
                [section |-> "largest_symbols"]>>
    /\ mpc' = "cleanup_main"
    /\ UNCHANGED <<args, env, markdown_mode, markdown_output_path, current_result,
                   main_result, fs, md_file, exit_code, first_run, other_vars>>

\* the main target directory, the workspace and the worktrees are removed
CleanupMain ==
    /\ mpc = "cleanup_main"
    /\ fs' = fs \ {"main_target_dir", "workspace_dir", "facet_worktree", "limpid_worktree"}
    /\ exit_code' = Some(EXIT_SUCCESS)
    /\ mpc' = "exit"
    /\ UNCHANGED <<args, env, markdown_mode, markdown_output_path, current_result,
                   main_result, stdout, md_file, first_run, other_vars>>

\* what a run leaves for its caller to see
RunOutput == [stdout |-> stdout, md_file |-> md_file, exit_code |-> exit_code]

\* the program is started once more with the same command line, in the same
\* environment; the temporary paths of the new process are its own
RunAgain ==
    /\ mpc = "exit"
    /\ is_none(first_run)
    /\ first_run' = Some(RunOutput)
    /\ mpc' = "parse"
    /\ markdown_mode' = FALSE /\ markdown_output_path' = None
    /\ current_result' = None /\ main_result' = None
    /\ fs' = {} /\ stdout' = <<>> /\ md_file' = None
    /\ exit_code' = None
    /\ UNCHANGED <<args, env, other_vars>>

MainNext ==
    \/ ParseArgs
    \/ Setup
    \/ BuildCurrent
    \/ TopCrates
    \/ CleanupCurrent
    \/ CreateWorkspace
    \/ BuildMain
    \/ SizeComparison
    \/ WriteMarkdown
    \/ TextReport
    \/ CleanupMain
    \/ RunAgain

MainSpec == MainInit /\ [][MainNext]_vars

Exited == mpc = "exit"

(***************************************************************************)
(* Readings of a run of main                                               *)
(***************************************************************************)
ComparisonSections ==
    {"size_comparison", "crate_size_changes", "crate_time_changes", "symbol_changes",
     "largest_symbols"}

\* something of the comparison was printed or written
HasComparisonOutput ==
    \/ is_some(md_file)
    \/ \E i \in DOMAIN stdout : stdout[i].section \in ComparisonSections

\* main got past its argument check
ArgsAccepted == ~(parse_args(args).markdown_mode
                  /\ is_none(parse_args(args).markdown_output_path))

CurrentBuildFails == ArgsAccepted /\ env.current.outcome # "ok"

\* the main build is started, and fails
MainBuildFails ==
    /\ ArgsAccepted /\ env.current.outcome = "ok"
    /\ env.facet_repo /\ env.main_manifest
    /\ env.main.outcome # "ok"

(***************************************************************************)
(* C11: no comparison output, neither a comparison section on the terminal *)
(* nor the markdown file, exists unless the build and the analysis of both *)
(* versions succeeded; when either fails the run ends with the error exit  *)
(* code and has produced no comparison output.                             *)
(***************************************************************************)
C11_NoPartialResult ==
    /\ HasComparisonOutput =>
          /\ env.current.outcome = "ok" /\ env.main.outcome = "ok"
          /\ is_some(current_result) /\ is_some(main_result)
    /\ (Exited /\ (CurrentBuildFails \/ MainBuildFails)) =>
          /\ exit_code = Some(EXIT_FAILURE)
          /\ ~HasComparisonOutput
          /\ is_none(main_result)

\* the main build failed after the current one succeeded: the run ended
\* with the top crates of the current build printed and nothing compared
C11_Witness ==
    /\ Exited /\ MainBuildFails
    /\ is_some(current_result)
    /\ \E i \in DOMAIN stdout : stdout[i].section = "top_crates"
    /\ ~HasComparisonOutput
    /\ exit_code = Some(EXIT_FAILURE)

\* both succeeded and the markdown report was written
C11_ReportWitness ==
    /\ Exited /\ is_some(md_file) /\ exit_code = Some(EXIT_SUCCESS)
    /\ is_some(current_result) /\ is_some(main_result)

(***************************************************************************)
(* C12: when the build or the analysis of a version fails, the temporary   *)
(* target directory created for that build has been removed when the error *)
(* is returned.                                                            *)
(***************************************************************************)
C12_TempDirRemovedOnFailure ==
    (Exited /\ (CurrentBuildFails \/ MainBuildFails)) =>
        fs \cap {"target_dir", "main_target_dir"} = {}

\* the target directories are removed on the runs that succeed
C12_TempDirRemovedOnSuccess ==
    (Exited /\ exit_code = Some(EXIT_SUCCESS)) =>
        fs \cap {"target_dir", "main_target_dir"} = {}

\* the analysis of the current build failed and its target directory is left
C12_Witness ==
    /\ Exited
    /\ env.current.outcome = "analysis_failed"
    /\ exit_code = Some(EXIT_FAILURE)
    /\ "target_dir" \in fs

\* the main build failed: its target directory, the workspace and the two
\* worktrees are left
C12_MainWitness ==
    /\ Exited /\ MainBuildFails
    /\ fs = {"main_target_dir", "workspace_dir", "facet_worktree", "limpid_worktree"}

(***************************************************************************)
(* C13: a second run on the same inputs yields the same output as the      *)
(* first, the order of the entries of every list included.                 *)
(***************************************************************************)
C13_Deterministic ==
    (Exited /\ is_some(first_run)) => RunOutput = first_run[1]

\* two crates have the same total size in the current build
SizeTie ==
    LET sizes == crate_sizes_of(env.current.result.symbols)
    IN  \E c, d \in DOMAIN sizes : c # d /\ sizes[c] = sizes[d]

\* two crates have the same sort key in the build-time change list
TimeTie ==
    LET mt == crate_times_of(env.main.result.timing_data)
        ct == crate_times_of(env.current.result.timing_data)
    IN  \E c, d \in DOMAIN mt \cup DOMAIN ct :
           /\ c # d
           /\ time_diff_key(<<c, MapGet(mt, c), MapGet(ct, c)>>)
                = time_diff_key(<<d, MapGet(mt, d), MapGet(ct, d)>>)

\* without ties on a sort key the two runs agree
C13_DeterministicWithoutTies ==
    (Exited /\ is_some(first_run) /\ ~SizeTie /\ ~TimeTie) => RunOutput = first_run[1]

\* the two runs wrote markdown reports that differ
C13_Witness ==
    /\ Exited /\ is_some(first_run)
    /\ is_some(md_file) /\ is_some(first_run[1].md_file)
    /\ md_file # first_run[1].md_file
    /\ stdout = first_run[1].stdout

\* the two runs printed top-crates lists that differ
C13_TopCratesWitness ==
    /\ Exited /\ is_some(first_run)
    /\ \E i \in DOMAIN stdout :
          /\ stdout[i].section = "top_crates"
          /\ i \in DOMAIN first_run[1].stdout
          /\ first_run[1].stdout[i].section = "top_crates"
          /\ stdout[i] # first_run[1].stdout[i]

(***************************************************************************)
(* C14: the crates of a build are listed by descending total symbol size,  *)
(* crates of equal total size by ascending name.                           *)
(***************************************************************************)
\* the names of the printed top-crates list, in order
TopCratesNames(section) == [i \in DOMAIN section.rows |-> section.rows[i].name]

SortedBySizeThenName(names, sizes) ==
    \A i, j \in DOMAIN names :
        i < j => \/ sizes[names[i]] > sizes[names[j]]
                 \/ (sizes[names[i]] = sizes[names[j]] /\ names[i] < names[j])

SortedBySize(names, sizes) ==
    \A i, j \in DOMAIN names : i < j => sizes[names[i]] >= sizes[names[j]]

C14_CratesBySizeThenName ==
    \A i \in DOMAIN stdout :
        stdout[i].section = "top_crates" =>
            SortedBySizeThenName(TopCratesNames(stdout[i]),
                                 crate_sizes_of(current_result[1].symbols))

\* the sizes never increase along the list, and every crate is listed
C14_CratesBySizeDescending ==
    \A i \in DOMAIN stdout :
        stdout[i].section = "top_crates" =>
            LET sizes == crate_sizes_of(current_result[1].symbols)
            IN  /\ SortedBySize(TopCratesNames(stdout[i]), sizes)
                /\ Range(TopCratesNames(stdout[i])) = DOMAIN sizes

\* two crates of 50 bytes each, listed as 2, 1
C14_Witness ==
    \E i \in DOMAIN stdout :
        /\ stdout[i].section = "top_crates"
        /\ TopCratesNames(stdout[i]) = <<2, 1>>
        /\ crate_sizes_of(current_result[1].symbols) = <<50, 50>>

(***************************************************************************)
(* C20: invalid command-line arguments, an unknown flag or --markdown      *)
(* without a following file path, end the program with exit code 3 before  *)
(* any build is started.                                                   *)
(***************************************************************************)
InvalidArgs(a) ==
    \E i \in DOMAIN a :
        \/ a[i] = "--bogus"
        \/ a[i] \in {"--markdown", "-m"}
           /\ (i = Len(a) \/ arg_starts_with_dash(a[i + 1]))

C20_InvalidArgsExit3 ==
    (InvalidArgs(args) /\ mpc # "parse") =>
        /\ Exited
        /\ exit_code = Some(3)
        /\ fs = {} /\ is_none(current_result) /\ stdout = <<>>

\* what main does: only a markdown mode without any path stops the run, with
\* exit code 1 and before any build
C20_MissingPathExits1 ==
    (~ArgsAccepted /\ mpc # "parse") =>
        /\ Exited
        /\ exit_code = Some(EXIT_FAILURE)
        /\ fs = {} /\ is_none(current_result) /\ stdout = <<>>

\* CliConfig::from_args rejects exactly the invalid command lines
C20_FromArgsRejects == InvalidArgs(args) <=> ~from_args(args).ok

\* an unknown flag is ignored: both builds run and the run succeeds
C20_Witness ==
    /\ Exited
    /\ args = <<"--bogus">>
    /\ is_some(current_result) /\ is_some(main_result)
    /\ exit_code = Some(EXIT_SUCCESS)

\* --markdown without a path: exit code 1
C20_MissingPathWitness ==
    /\ Exited
    /\ args = <<"--markdown">>
    /\ exit_code = Some(EXIT_FAILURE)
    /\ is_none(current_result)

(***************************************************************************)
(* C21: the exit code tells the kind of failure: a failed build ends the   *)
(* program with exit code 1, a failed binary analysis with exit code 2,    *)
(* and exit code 0 is returned only when the whole run succeeded.          *)
(***************************************************************************)
\* the outcome of the step that ended the run, "ok" when no step failed
FailedOutcome ==
    IF CurrentBuildFails THEN env.current.outcome
    ELSE IF MainBuildFails THEN env.main.outcome
    ELSE "ok"

C21_ExitCodeTellsFailureKind ==
    (Exited /\ ArgsAccepted) =>
        /\ FailedOutcome = "build_failed" => exit_code = Some(1)
        /\ FailedOutcome = "analysis_failed" => exit_code = Some(2)
        /\ exit_code = Some(0) => FailedOutcome = "ok"

\* what main returns: 1 for every failure, 0 only without one
C21_EveryFailureExits1 ==
    (Exited /\ ArgsAccepted) =>
        /\ FailedOutcome # "ok" => exit_code = Some(EXIT_FAILURE)
        /\ exit_code = Some(EXIT_SUCCESS) => FailedOutcome = "ok"

\* the analysis of the current binary failed and the exit code is 1
C21_Witness ==
    /\ Exited
    /\ FailedOutcome = "analysis_failed"
    /\ exit_code = Some(EXIT_FAILURE)

\* reading a decimal number back
IsDigits(s) == s # <<>> /\ \A i \in DOMAIN s : \E d \in DOMAIN DigitChars : DigitChars[d] = s[i]

DigitValue(c) == (CHOOSE d \in DOMAIN DigitChars : DigitChars[d] = c) - 1

RECURSIVE ParseNat(_)
ParseNat(s) ==
    IF s = <<>> THEN 0 ELSE ParseNat(SubSeq(s, 1, Len(s) - 1)) * 10 + DigitValue(s[Len(s)])
(***************************************************************************)
(* format_bytes on the whole range of u64.  A count is written in base     *)
(* 1024, most significant limb first and without leading zero limbs, so    *)
(* that a division by 1024.0 moves one limb behind the point.  The inputs  *)
(* drawn below have at most 50 significant bits: `bytes as f64` and the    *)
(* divisions are exact for them.                                           *)
(***************************************************************************)
LIMB == 1024

\* a u64 has 64 bits: six limbs of 10 bits and a seventh of 4
U64_LIMBS == 7

U64_TOP_LIMB == 16

RECURSIVE to_limbs(_)
to_limbs(n) ==
    IF n < LIMB THEN <<n>> ELSE to_limbs(n \div LIMB) \o <<n % LIMB>>

RECURSIVE limbs_value(_)
limbs_value(l) ==
    IF l = <<>> THEN 0 ELSE limbs_value(SubSeq(l, 1, Len(l) - 1)) * LIMB + l[Len(l)]

\* the while loop of format_bytes: `size` is ip.fp, ip >= 1024 iff ip has
\* two limbs or more
RECURSIVE format_bytes_loop(_, _, _)
format_bytes_loop(ip, fp, unit) ==
    IF Len(ip) >= 2 /\ unit < Len(UNITS) - 1
    THEN format_bytes_loop(SubSeq(ip, 1, Len(ip) - 1), <<ip[Len(ip)]>> \o fp, unit + 1)
    ELSE [ip |-> ip, fp |-> fp, unit |-> unit]

\* ten times the fraction 0.fp: the carry into the integer part and the
\* fraction that is left
RECURSIVE mul10(_)
mul10(fp) ==
    IF fp = <<>> THEN [carry |-> 0, limbs |-> <<>>]
    ELSE LET rest == mul10(Tail(fp))
             x    == fp[1] * 10 + rest.carry
         IN  [carry |-> x \div LIMB, limbs |-> <<x % LIMB>> \o rest.limbs]

\* {:.1} keeps the tenths and drops the rest
truncate_tenths(q, rest) == q

\* {:.1} rounds q.rest, in tenths, to the nearest integer, ties to even
round_tenths(q, rest) ==
    LET low_zero == \A i \in 2..Len(rest) : rest[i] = 0
        above    == rest # <<>> /\ (rest[1] > LIMB \div 2 \/ (rest[1] = LIMB \div 2 /\ ~low_zero))
        tie      == rest # <<>> /\ rest[1] = LIMB \div 2 /\ low_zero
    IN  IF above THEN q + 1
        ELSE IF tie /\ q % 2 = 1 THEN q + 1
        ELSE q

\* format!("{:.1}", size) of size = ip.fp
fmt_one_decimal(ip, fp) ==
    LET m      == mul10(fp)
        scaled == round_tenths(limbs_value(ip) * 10 + m.carry, m.limbs)
    IN  to_string(scaled \div 10) \o <<".">> \o to_string(scaled % 10)

format_bytes_u64(limbs) ==
    LET r == format_bytes_loop(limbs, <<>>, 0)
    IN  IF r.unit = 0
        THEN to_string(limbs_value(limbs)) \o <<" ">> \o <<UNITS[r.unit + 1]>>
        ELSE fmt_one_decimal(r.ip, r.fp) \o <<" ">> \o <<UNITS[r.unit + 1]>>

(***************************************************************************)
(* fmt_thousands on the whole range of isize.  An isize is its sign and    *)
(* the decimal digits of its magnitude.                                    *)
(***************************************************************************)
ISIZE_MIN_DIGITS == <<"9", "2", "2", "3", "3", "7", "2", "0", "3", "6", "8", "5", "4", "7", "7", "5", "8", "0", "8">>

ISIZE_MAX_DIGITS == <<"9", "2", "2", "3", "3", "7", "2", "0", "3", "6", "8", "5", "4", "7", "7", "5", "8", "0", "7">>

isize_of(n) == [negative |-> n < 0, digits |-> to_string(abs(n))]

ISIZE_MIN == [negative |-> TRUE, digits |-> ISIZE_MIN_DIGITS]

\* what a formatting call gives: a string, or a panic
Returned(text) == [panic |-> FALSE, text |-> text]

Panicked == [panic |-> TRUE, text |-> <<>>]

\* n.abs().to_string(): |isize::MIN| is not an isize; abs panics with
\* overflow checks on and returns isize::MIN itself, sign included, with
\* overflow checks off
abs_to_string(n) ==
    IF n = ISIZE_MIN
    THEN {Panicked, Returned(<<"-">> \o n.digits)}
    ELSE {Returned(n.digits)}

\* the outcomes of fmt_thousands(n)
fmt_thousands_isize(n) ==
    {IF s.panic THEN Panicked
     ELSE LET outs      == fmt_thousands_loop(Reverse(s.text), 0)
              formatted == Reverse(outs)
          IN  Returned(IF n.negative THEN <<"-">> \o formatted ELSE formatted)
     : s \in abs_to_string(n)}

(***************************************************************************)
(* The formatting calls: one call of format_bytes or of fmt_thousands on   *)
(* an argument of its type.                                                *)
(***************************************************************************)
MaxLimbs == 6

\* limbs at the edges and around the rounding points of one decimal
TopLimbs == {1, 15, 1023}

SecondLimbs == {0, 51, 52, 256, 512, 768, 973, 1023}

\* the limbs after the second: zeros, zeros and a last 1, or all ones as
\* long as the count keeps 50 significant bits
LowLimbs(k) ==
    {[i \in 1..k |-> 0]}
    \cup (IF k >= 1 /\ k <= 3 THEN {[i \in 1..k |-> IF i = k THEN 1 ELSE 0], [i \in 1..k |-> LIMB - 1]} ELSE {})

ByteCounts ==
    {<<b>> : b \in {0, 1, 15, 1023}}
    \cup UNION {{<<t, s>> \o low : t \in {x \in TopLimbs : len < U64_LIMBS \/ x < U64_TOP_LIMB},
                                  s \in SecondLimbs, low \in LowLimbs(len - 2)}
                : len \in 2..Min(MaxLimbs, U64_LIMBS)}

SmallCounts == {0, 1, 12, 123, 999, 1000, 1234, 12345, 123456, 999999, 1000000, 1234567}

Isizes ==
    {isize_of(n) : n \in SmallCounts} \cup {isize_of(-n) : n \in SmallCounts}
    \cup {ISIZE_MIN,
          [negative |-> TRUE, digits |-> ISIZE_MAX_DIGITS],
          [negative |-> FALSE, digits |-> ISIZE_MAX_DIGITS]}

FmtInit ==
    /\ \/ callee = "format_bytes" /\ call_arg \in ByteCounts
       \/ callee = "fmt_thousands" /\ call_arg \in Isizes
    /\ call_ret = None
    /\ ReportIdle
    /\ AttrIdle
    /\ MainIdle
    /\ GitIdle

FormatBytes ==
    /\ callee = "format_bytes"
    /\ call_ret = None
    /\ call_ret' = Some(Returned(format_bytes_u64(call_arg)))
    /\ UNCHANGED <<callee, call_arg, baseline, current, pc, out, attr_vars, main_vars, git_vars>>

FmtThousands ==
    /\ callee = "fmt_thousands"
    /\ call_ret = None
    /\ \E r \in fmt_thousands_isize(call_arg) : call_ret' = Some(r)
    /\ UNCHANGED <<callee, call_arg, baseline, current, pc, out, attr_vars, main_vars, git_vars>>

FmtNext == FormatBytes \/ FmtThousands

FmtSpec == FmtInit /\ [][FmtNext]_vars

\* the call has returned or panicked
Called(f) == callee = f /\ call_ret # None

\* the two models of each function agree where both can count
NarrowAndWideAgree ==
    /\ Called("format_bytes") /\ Len(call_arg) <= 2
          => call_ret[1].text = format_bytes(limbs_value(call_arg))
    /\ Called("fmt_thousands") /\ Len(call_arg.digits) <= 7
          => call_ret[1].text
              = fmt_thousands(IF call_arg.negative THEN -ParseNat(call_arg.digits)
                              ELSE ParseNat(call_arg.digits))

(***************************************************************************)
(* C22: format_bytes prints a count below 1024 as the exact integer and B; *)
(* otherwise it prints the count in the largest of KB, MB, GB, TB in which *)
(* it is at least 1 (TB from 1024 TB on), with one decimal that is the     *)
(* count in that unit to the nearest tenth.                                *)
(***************************************************************************)
\* the largest unit in which the count is at least 1: 1024^u <= count iff
\* the count has more than u limbs
LargestUnit(l) ==
    IF Len(l) = 1 THEN 0
    ELSE CHOOSE u \in 1..(Len(UNITS) - 1) :
            /\ Len(l) > u
            /\ \A v \in 1..(Len(UNITS) - 1) : Len(l) > v => v <= u

C22_FormatBytesBinaryUnits ==
    Called("format_bytes") =>
        LET l   == call_arg
            o   == call_ret[1].text
            u   == LargestUnit(l)
            num == SubSeq(o, 1, Len(o) - 2)
            int == SubSeq(num, 1, Len(num) - 2)
            \* the count in the unit is ip + f1/1024 + less than 1/1024
            ip  == limbs_value(SubSeq(l, 1, Len(l) - u))
            f1  == l[Len(l) - u + 1]
            \* the tenths printed beyond ten times the integer part
            R   == (ParseNat(int) * 10 + ParseNat(<<num[Len(num)]>>)) - 10 * ip
        IN  /\ ~call_ret[1].panic
            /\ o[Len(o)] = UNITS[u + 1]
            /\ o[Len(o) - 1] = " "
            /\ u = 0 => num = to_string(l[1])
            /\ u > 0 =>
                /\ Len(num) >= 3
                /\ num[Len(num) - 1] = "."
                /\ IsDigits(int) /\ IsDigits(<<num[Len(num)]>>)
                /\ to_string(ParseNat(int)) = int
                /\ ip >= 1
                /\ u < Len(UNITS) - 1 => ip < LIMB
                \* within a twentieth of the count
                /\ LIMB * R - 10 * f1 >= -(LIMB \div 2)
                /\ LIMB * R - 10 * (f1 + 1) <= LIMB \div 2

\* a count of 1024 TB or more has been printed in TB
C22_Witness ==
    /\ Called("format_bytes")
    /\ Len(call_arg) = 6
    /\ call_ret[1].text[Len(call_ret[1].text)] = "TB"

\* a count printed with one decimal that had to be rounded up
C22_RoundedWitness ==
    /\ Called("format_bytes")
    /\ call_arg = <<1, 1023>>
    /\ call_ret[1].text = <<"2", ".", "0", " ", "KB">>

(***************************************************************************)
(* C23: fmt_thousands prints every isize n, the minimum value included, as *)
(* the decimal digits of |n| in groups of three counted from the right,    *)
(* separated by commas, the first group of 1 to 3 digits, with '-' in      *)
(* front exactly when n < 0; without the commas the text is the decimal    *)
(* representation of n.                                                    *)
(***************************************************************************)
RECURSIVE RemoveCommas(_)
RemoveCommas(s) ==
    IF s = <<>> THEN <<>>
    ELSE (IF s[1] = "," THEN <<>> ELSE <<s[1]>>) \o RemoveCommas(Tail(s))

\* commas at every fourth place counted from the right and nowhere else
GroupedByThree(body) ==
    /\ body # <<>>
    /\ body[1] # ","
    /\ \A i \in DOMAIN body : body[i] = "," <=> (Len(body) - i + 1) % 4 = 0

\* the decimal representation of n
Decimal(n) == (IF n.negative THEN <<"-">> ELSE <<>>) \o n.digits

ThousandsOf(n, r) ==
    LET body == IF n.negative THEN Tail(r.text) ELSE r.text
    IN  /\ ~r.panic
        /\ n.negative <=> (r.text # <<>> /\ r.text[1] = "-")
        /\ GroupedByThree(body)
        /\ IsDigits(RemoveCommas(body))
        /\ RemoveCommas(r.text) = Decimal(n)

C23_ThousandsForEveryInteger ==
    Called("fmt_thousands") => ThousandsOf(call_arg, call_ret[1])

\* what the code does: the same for every isize above the minimum
C23_ThousandsAboveMin ==
    (Called("fmt_thousands") /\ call_arg # ISIZE_MIN) => ThousandsOf(call_arg, call_ret[1])

\* isize::MIN has been formatted without overflow checks: two signs
C23_Witness ==
    /\ Called("fmt_thousands")
    /\ call_arg = ISIZE_MIN
    /\ ~call_ret[1].panic
    /\ SubSeq(call_ret[1].text, 1, 4) = <<"-", "-", "9", ",">>

\* isize::MIN has been formatted with overflow checks: a panic
C23_PanicWitness ==
    /\ Called("fmt_thousands")
    /\ call_arg = ISIZE_MIN
    /\ call_ret[1].panic

\* a negative number of seven digits has been formatted
C23_NegativeWitness ==
    /\ Called("fmt_thousands")
    /\ call_arg = isize_of(-1234567)
    /\ call_ret[1].text = <<"-", "1", ",", "2", "3", "4", ",", "5", "6", "7">>

(***************************************************************************)
(* The command lines given to CliConfig::from_args                         *)
(***************************************************************************)
MaxCliArgs == 4

CliTokens == {"--markdown", "-m", "--verbose", "-h", "--bogus", "out.md", "b.md"}

CliArgLists == UNION {[1..n -> CliTokens] : n \in 0..MaxCliArgs}

CliInit ==
    /\ callee = "from_args"
    /\ call_arg \in CliArgLists
    /\ call_ret = None
    /\ ReportIdle
    /\ AttrIdle
    /\ MainIdle
    /\ GitIdle

FromArgs ==
    /\ callee = "from_args"
    /\ call_ret = None
    /\ call_ret' = Some(from_args(call_arg))
    /\ UNCHANGED <<callee, call_arg, baseline, current, pc, out, attr_vars, main_vars, git_vars>>

CliNext == FromArgs

CliSpec == CliInit /\ [][CliNext]_vars

(***************************************************************************)
(* C24: from_args accepts a command line exactly when every --markdown/-m  *)
(* is directly followed by a token not starting with '-' and the only      *)
(* other tokens starting with '-' are -v/--verbose and -h/--help; then     *)
(* markdown_output is the token after the last --markdown (None without    *)
(* one) and verbose tells whether -v/--verbose occurs; every other command *)
(* line gives an error and no configuration.                               *)
(***************************************************************************)
IsMarkdownFlag(x) == x \in {"--markdown", "-m"}

IsVerboseFlag(x) == x \in {"--verbose", "-v"}

IsHelpFlag(x) == x \in {"--help", "-h"}

\* token i is a --markdown without a path after it, or an unknown option
Offending(a, i) ==
    \/ IsMarkdownFlag(a[i]) /\ (i = Len(a) \/ arg_starts_with_dash(a[i + 1]))
    \/ /\ arg_starts_with_dash(a[i])
       /\ ~IsMarkdownFlag(a[i]) /\ ~IsVerboseFlag(a[i]) /\ ~IsHelpFlag(a[i])

WellFormedArgs(a) == \A i \in DOMAIN a : ~Offending(a, i)

\* the token after the last --markdown/-m, None without one
LastMarkdownPath(a) ==
    LET flags == {i \in DOMAIN a : IsMarkdownFlag(a[i])}
    IN  IF flags = {} THEN None
        ELSE Some(a[(CHOOSE i \in flags : \A j \in flags : j <= i) + 1])

ConfigOf(a) ==
    [markdown_output |-> LastMarkdownPath(a),
     verbose |-> \E i \in DOMAIN a : IsVerboseFlag(a[i])]

C24_AcceptsExactlyWellFormed ==
    Called("from_args") =>
        IF WellFormedArgs(call_arg)
        THEN call_ret[1] = Ok(ConfigOf(call_arg))
        ELSE call_ret[1] \in {Err("--markdown flag requires a file path argument"),
                              Err("Unknown argument")}

\* what the code does: the tokens are read from left to right, and a
\* -h/--help met before any offending token ends the process with exit
\* code 0; without that, the command line is accepted exactly when it is
\* well formed, and rejected with the error of its first offending token
HelpBeforeError(a) ==
    \E i \in DOMAIN a : IsHelpFlag(a[i]) /\ \A j \in 1..(i - 1) : ~Offending(a, j)

FirstOffending(a) == CHOOSE i \in DOMAIN a : Offending(a, i) /\ \A j \in 1..(i - 1) : ~Offending(a, j)

C24_AcceptsUnlessHelpOrError ==
    Called("from_args") =>
        IF HelpBeforeError(call_arg)
        THEN call_ret[1] = ProcessExit(EXIT_SUCCESS)
        ELSE IF WellFormedArgs(call_arg)
        THEN call_ret[1] = Ok(ConfigOf(call_arg))
        ELSE call_ret[1] =
                IF IsMarkdownFlag(call_arg[FirstOffending(call_arg)])
                THEN Err("--markdown flag requires a file path argument")
                ELSE Err("Unknown argument")

\* two --markdown with different paths have been accepted: the last wins
C24_Witness ==
    /\ Called("from_args")
    /\ call_arg = <<"-m", "out.md", "--markdown", "b.md">>
    /\ call_ret[1] = Ok([markdown_output |-> Some("b.md"), verbose |-> FALSE])

\* -h in front of an unknown option: the process exits with code 0
C24_HelpWitness ==
    /\ Called("from_args")
    /\ call_arg = <<"--verbose", "-h", "--bogus">>
    /\ call_ret[1] = ProcessExit(EXIT_SUCCESS)

\* --markdown followed by an option is rejected
C24_RejectWitness ==
    /\ Called("from_args")
    /\ call_arg = <<"out.md", "--markdown", "--verbose">>
    /\ ~call_ret[1].ok

(***************************************************************************)
(* C25: when --markdown <file> was given and the program ends with exit    *)
(* code 0, a markdown report has been written to <file> during the run,    *)
(* whether the comparison was available, the facet repository was missing  *)
(* or the manifest of the main branch was missing.                         *)
(***************************************************************************)
MarkdownRequested == markdown_mode /\ is_some(markdown_output_path)

EndedSuccessfully == Exited /\ exit_code = Some(EXIT_SUCCESS)

MarkdownWritten == is_some(md_file) /\ md_file[1].path = markdown_output_path[1]

C25_MarkdownWrittenOnSuccess ==
    (MarkdownRequested /\ EndedSuccessfully) => MarkdownWritten

\* what main does: the file is written exactly on the comparison path
C25_MarkdownWrittenWithComparison ==
    (MarkdownRequested /\ EndedSuccessfully) =>
        (MarkdownWritten <=> (env.facet_repo /\ env.main_manifest))

\* a successful markdown run without the main-branch manifest: no file
C25_Witness ==
    /\ MarkdownRequested /\ EndedSuccessfully
    /\ env.facet_repo /\ ~env.main_manifest
    /\ md_file = None

\* a successful markdown run without the facet repository: no file
C25_NoRepoWitness ==
    /\ MarkdownRequested /\ EndedSuccessfully
    /\ ~env.facet_repo
    /\ md_file = None

\* a successful markdown run with the comparison: the file is written
C25_ComparisonWitness ==
    /\ MarkdownRequested /\ EndedSuccessfully
    /\ MarkdownWritten

(***************************************************************************)
(* main.rs: create_worktree, remove_worktree, create_comparison_workspace  *)
(* (git.rs holds the same three functions with `git worktree add --force`  *)
(* and error contexts).  The file system is the workspace directory and    *)
(* the two worktree paths below it; a worktree path is absent, holds       *)
(* something older than the call ("old"), or holds the worktree git has    *)
(* just created ("fresh").  git_env holds the state of the file system     *)
(* at the call and what the file system and git answer.                    *)
(***************************************************************************)
\* &limpid_head[..8]
HASH_PREFIX == 8

STDERR == "stderr of git"

\* a panic of the thread inside the call
Panic(msg) == [ok |-> FALSE, panic |-> msg]

Worktrees == {"facet", "limpid"}

\* str[..n]: the first n bytes, a panic when the string is shorter
slice_prefix(s, n) == IF Len(s) >= n THEN Ok(SubSeq(s, 1, n)) ELSE Panic("byte index out of range")

\* the position in a function, the worktree it works on, and where the
\* caller goes on when it returns Ok
At(label, target, then) == [at |-> label, target |-> target, then |-> then]

GitReturn(r) ==
    /\ git_ret' = Some(r)
    /\ git_pc' = At("done", "", "")

GitLogged(step) == git_log' = Append(git_log, step)

\* if worktree_path.exists() { remove_dir_all(worktree_path)? }
CwRemoveExisting ==
    /\ git_pc.at = "cw_exists"
    /\ IF git_fs[git_pc.target] = "absent"
       THEN /\ git_pc' = [git_pc EXCEPT !.at = "cw_parent"]
            /\ UNCHANGED <<git_fs, git_log, git_ret>>
       ELSE /\ GitLogged(<<"remove_dir_all", git_pc.target>>)
            /\ IF git_env.remove_ok
               THEN /\ git_fs' = [git_fs EXCEPT ![git_pc.target] = "absent"]
                    /\ git_pc' = [git_pc EXCEPT !.at = "cw_parent"]
                    /\ UNCHANGED git_ret
               ELSE /\ GitReturn(Err(<<"io", "remove_dir_all">>))
                    /\ UNCHANGED git_fs
    /\ UNCHANGED <<git_op, git_env, baseline, current, pc, out, attr_vars, main_vars, call_vars>>

\* if let Some(parent) = worktree_path.parent() { create_dir_all(parent)? }
CwCreateParent ==
    /\ git_pc.at = "cw_parent"
    /\ GitLogged(<<"create_dir_all", "workspace">>)
    /\ IF git_env.mkdir_ok
       THEN /\ git_fs' = [git_fs EXCEPT !.workspace = IF @ = "absent" THEN "fresh" ELSE @]
            /\ git_pc' = [git_pc EXCEPT !.at = "cw_git"]
            /\ UNCHANGED git_ret
       ELSE /\ GitReturn(Err(<<"io", "create_dir_all">>))
            /\ UNCHANGED git_fs
    /\ UNCHANGED <<git_op, git_env, baseline, current, pc, out, attr_vars, main_vars, call_vars>>

\* the status of git is not looked at
after_worktree_add_unchecked(answer) ==
    IF answer = "spawn_failed" THEN Err(<<"io", "git">>) ELSE Ok(<<>>)

\* run_command(git worktree add)?; if !output.status.success() { return Err }
after_worktree_add(answer) ==
    IF answer = "spawn_failed" THEN Err(<<"io", "git">>)
    ELSE IF answer = "exit_nonzero" THEN Err(<<"Failed to create worktree: ", STDERR>>)
    ELSE Ok(<<>>)

\* git worktree add --detach <worktree_path> <branch>, and the return
CwWorktreeAdd ==
    /\ git_pc.at = "cw_git"
    /\ LET answer == git_env.worktree_add[git_pc.target]
           r      == after_worktree_add(answer)
       IN  /\ GitLogged(<<"git worktree add", git_pc.target>>)
           /\ git_fs' = IF answer = "success"
                        THEN [git_fs EXCEPT ![git_pc.target] = "fresh"]
                        ELSE git_fs
           /\ IF r.ok /\ git_pc.then # "return"
              THEN git_pc' = At(git_pc.then, "", "return") /\ UNCHANGED git_ret
              ELSE GitReturn(r)
    /\ UNCHANGED <<git_op, git_env, baseline, current, pc, out, attr_vars, main_vars, call_vars>>

\* if worktree_path.exists() { remove_dir_all(worktree_path)? }
RwRemoveDir ==
    /\ git_pc.at = "rw_exists"
    /\ IF git_fs[git_pc.target] = "absent"
       THEN /\ git_pc' = [git_pc EXCEPT !.at = "rw_prune"]
            /\ UNCHANGED <<git_fs, git_log, git_ret>>
       ELSE /\ GitLogged(<<"remove_dir_all", git_pc.target>>)
            /\ IF git_env.remove_ok
               THEN /\ git_fs' = [git_fs EXCEPT ![git_pc.target] = "absent"]
                    /\ git_pc' = [git_pc EXCEPT !.at = "rw_prune"]
                    /\ UNCHANGED git_ret
               ELSE /\ GitReturn(Err(<<"io", "remove_dir_all">>))
                    /\ UNCHANGED git_fs
    /\ UNCHANGED <<git_op, git_env, baseline, current, pc, out, attr_vars, main_vars, call_vars>>

\* a failing prune returns an error
after_prune_fatal(answer) ==
    IF answer = "success" THEN <<Ok(<<>>)>> ELSE <<Err(<<"io", "git">>)>>

\* run_command(git worktree prune)?; a failing status only prints a
\* warning: the steps logged and the value returned
after_prune(answer) ==
    IF answer = "spawn_failed" THEN <<Err(<<"io", "git">>)>>
    ELSE IF answer = "exit_nonzero"
    THEN <<Ok(<<>>), <<"Warning: git worktree prune failed: ", STDERR>>>>
    ELSE <<Ok(<<>>)>>

RwPrune ==
    /\ git_pc.at = "rw_prune"
    /\ LET r == after_prune(git_env.prune)
       IN  /\ git_log' = git_log \o <<<<"git worktree prune", git_pc.target>>>> \o Tail(r)
           /\ GitReturn(r[1])
    /\ UNCHANGED <<git_op, git_fs, git_env, baseline, current, pc, out, attr_vars, main_vars, call_vars>>

\* create_dir_all(workspace_dir)?, then create_worktree(facet, "origin/main")
CcwCreateWorkspaceDir ==
    /\ git_pc.at = "ccw_mkdir"
    /\ GitLogged(<<"create_dir_all", "workspace">>)
    /\ IF git_env.mkdir_ok
       THEN /\ git_fs' = [git_fs EXCEPT !.workspace = IF @ = "absent" THEN "fresh" ELSE @]
            /\ git_pc' = At("cw_exists", "facet", "ccw_rev_parse")
            /\ UNCHANGED git_ret
       ELSE /\ GitReturn(Err(<<"io", "create_dir_all">>))
            /\ UNCHANGED git_fs
    /\ UNCHANGED <<git_op, git_env, baseline, current, pc, out, attr_vars, main_vars, call_vars>>

\* git rev-parse HEAD, whose status is not looked at; from_utf8(stdout)?
\* .trim(); &limpid_head[..8] in the println!; create_worktree(limpid, head)
CcwRevParse ==
    /\ git_pc.at = "ccw_rev_parse"
    /\ GitLogged(<<"git rev-parse HEAD", "limpid">>)
    /\ LET a == git_env.rev_parse
       IN  IF a.spawn_failed THEN GitReturn(Err(<<"io", "git">>))
           ELSE IF ~a.utf8 THEN GitReturn(Err(<<"Utf8Error">>))
           ELSE IF ~slice_prefix(a.stdout, HASH_PREFIX).ok
           THEN GitReturn(slice_prefix(a.stdout, HASH_PREFIX))
           ELSE /\ git_pc' = At("cw_exists", "limpid", "ccw_finish")
                /\ UNCHANGED git_ret
    /\ UNCHANGED <<git_op, git_fs, git_env, baseline, current, pc, out, attr_vars, main_vars, call_vars>>

\* Ok((facet_worktree, limpid_worktree))
CcwFinish ==
    /\ git_pc.at = "ccw_finish"
    /\ GitReturn(Ok(<<"facet", "limpid">>))
    /\ UNCHANGED <<git_op, git_fs, git_env, git_log, baseline, current, pc, out, attr_vars, main_vars, call_vars>>

(***************************************************************************)
(* The worlds the worktree functions are called in                         *)
(***************************************************************************)
GitAnswers == {"spawn_failed", "exit_nonzero", "success"}

FullHash == [i \in 1..10 |-> "a"]

\* git rev-parse HEAD: not started; failed, with nothing or with the word
\* HEAD on stdout; succeeded with a hash; bytes that are not UTF-8
RevParseAnswers ==
    {[spawn_failed |-> TRUE, status_ok |-> FALSE, utf8 |-> TRUE, stdout |-> <<>>],
     [spawn_failed |-> FALSE, status_ok |-> FALSE, utf8 |-> TRUE, stdout |-> <<>>],
     [spawn_failed |-> FALSE, status_ok |-> FALSE, utf8 |-> TRUE, stdout |-> <<"H", "E", "A", "D">>],
     [spawn_failed |-> FALSE, status_ok |-> TRUE, utf8 |-> FALSE, stdout |-> <<>>],
     [spawn_failed |-> FALSE, status_ok |-> TRUE, utf8 |-> TRUE, stdout |-> FullHash]}

NoRevParse == [spawn_failed |-> TRUE, status_ok |-> FALSE, utf8 |-> TRUE, stdout |-> <<>>]

DirStates == {"absent", "old"}

GitFiles == [workspace : DirStates, facet : DirStates, limpid : DirStates]

\* a worktree below the workspace directory exists only if that exists
GitWorlds == {f \in GitFiles : f.workspace = "absent" => (f.facet = "absent" /\ f.limpid = "absent")}

MkGitEnv(initial, remove_ok, mkdir_ok, add_facet, add_limpid, prune, rev_parse) == [initial |-> initial, remove_ok |-> remove_ok, mkdir_ok |-> mkdir_ok, worktree_add |-> [facet |-> add_facet, limpid |-> add_limpid], prune |-> prune, rev_parse |-> rev_parse]

CreateWorktreeEnvs ==
    {MkGitEnv(f, r, m, a, "success", "success", NoRevParse) :
        f \in {g \in GitWorlds : g.limpid = "absent"}, r \in BOOLEAN, m \in BOOLEAN, a \in GitAnswers}

RemoveWorktreeEnvs ==
    {MkGitEnv(f, r, TRUE, "success", "success", p, NoRevParse) :
        f \in {g \in GitWorlds : g.limpid = "absent"}, r \in BOOLEAN, p \in GitAnswers}

WorkspaceEnvs ==
    {MkGitEnv(f, r, m, a, b, "success", h) :
        f \in GitWorlds, r \in BOOLEAN, m \in BOOLEAN, a \in GitAnswers, b \in GitAnswers,
        h \in RevParseAnswers}

GitInit ==
    /\ \/ /\ git_op = "create_worktree"
          /\ git_env \in CreateWorktreeEnvs
          /\ git_pc = At("cw_exists", "facet", "return")
       \/ /\ git_op = "remove_worktree"
          /\ git_env \in RemoveWorktreeEnvs
          /\ git_pc = At("rw_exists", "facet", "return")
       \/ /\ git_op = "create_comparison_workspace"
          /\ git_env \in WorkspaceEnvs
          /\ git_pc = At("ccw_mkdir", "", "return")
    /\ git_fs = git_env.initial
    /\ git_log = <<>>
    /\ git_ret = None
    /\ ReportIdle
    /\ AttrIdle
    /\ MainIdle
    /\ CallIdle

GitNext ==
    \/ CwRemoveExisting
    \/ CwCreateParent
    \/ CwWorktreeAdd
    \/ RwRemoveDir
    \/ RwPrune
    \/ CcwCreateWorkspaceDir
    \/ CcwRevParse
    \/ CcwFinish

GitSpec == GitInit /\ [][GitNext]_vars

\* the function has returned or panicked
GitReturned(f) == git_op = f /\ git_ret # None

(***************************************************************************)
(* C26: create_worktree removes a directory already at the worktree path,  *)
(* then creates the parent directory, then runs git worktree add --detach, *)
(* in that order and each once; it returns Ok only if git exited           *)
(* successfully, and returns an error at the first step that fails, which  *)
(* carries git's stderr when git exited with a failure; after an Ok the    *)
(* path holds the worktree just created and nothing of a previous one.     *)
(***************************************************************************)
IsPrefix(s, t) == Len(s) <= Len(t) /\ SubSeq(t, 1, Len(s)) = s

\* the steps of a complete create_worktree on the world it was called in
CreateWorktreeSteps(w) ==
    (IF git_env.initial[w] # "absent" THEN <<<<"remove_dir_all", w>>>> ELSE <<>>)
    \o <<<<"create_dir_all", "workspace">>, <<"git worktree add", w>>>>

\* the answer of the world to a step
StepSucceeds(step) ==
    IF step[1] = "remove_dir_all" THEN git_env.remove_ok
    ELSE IF step[1] = "create_dir_all" THEN git_env.mkdir_ok
    ELSE IF step[1] = "git worktree add" THEN git_env.worktree_add[step[2]] = "success"
    ELSE IF step[1] = "git worktree prune" THEN git_env.prune = "success"
    ELSE FALSE

C26_GitFailedWitness ==
    /\ GitReturned("create_worktree")
    /\ git_env.initial.facet = "old"
    /\ git_ret[1] = Err(<<"Failed to create worktree: ", STDERR>>)
    /\ git_fs.facet = "absent"

(***************************************************************************)
(* C27: remove_worktree returns Ok whenever the worktree directory is      *)
(* absent or was removed and git worktree prune could be started, even if  *)
(* git exits with a failure, which only prints a warning; after an Ok the  *)
(* worktree directory does not exist; it returns an error only if the      *)
(* removal of the directory or the start of git fails.                     *)
(***************************************************************************)
PruneWarning == <<"Warning: git worktree prune failed: ", STDERR>>

C27_PruneFailureNotFatal ==
    GitReturned("remove_worktree") =>
        LET r         == git_ret[1]
            dir_gone  == git_env.initial.facet = "absent" \/ git_env.remove_ok
            pruned    == \E i \in DOMAIN git_log : git_log[i] = <<"git worktree prune", "facet">>
        IN  /\ r \in {Ok(<<>>), Err(<<"io", "remove_dir_all">>), Err(<<"io", "git">>)}
            /\ r.ok <=> (dir_gone /\ git_env.prune # "spawn_failed")
            /\ r.ok => git_fs.facet = "absent"
            /\ (r.ok /\ git_env.prune = "exit_nonzero") => git_log[Len(git_log)] = PruneWarning
            /\ (\E i \in DOMAIN git_log : git_log[i] = PruneWarning)
                  => (pruned /\ git_env.prune = "exit_nonzero")
            /\ ~dir_gone => (r = Err(<<"io", "remove_dir_all">>) /\ ~pruned)

\* the directory was removed, git worktree prune failed, the call is Ok
C27_Witness ==
    /\ GitReturned("remove_worktree")
    /\ git_env.initial.facet = "old"
    /\ git_env.prune = "exit_nonzero"
    /\ git_ret[1].ok
    /\ git_fs.facet = "absent"

\* git could not be started: an error
C27_SpawnWitness ==
    /\ GitReturned("remove_worktree")
    /\ git_env.prune = "spawn_failed"
    /\ git_ret[1] = Err(<<"io", "git">>)

(***************************************************************************)
(* C29: create_comparison_workspace never panics: when git rev-parse HEAD  *)
(* fails or prints fewer than 8 characters it returns an error, and it has *)
(* not created the limpid worktree.                                        *)
(***************************************************************************)
RevParseUnusable ==
    \/ git_env.rev_parse.spawn_failed
    \/ ~git_env.rev_parse.status_ok
    \/ Len(git_env.rev_parse.stdout) < HASH_PREFIX

\* the call got as far as git rev-parse HEAD
RevParseRun == \E i \in DOMAIN git_log : git_log[i] = <<"git rev-parse HEAD", "limpid">>

IsErrValue(r) == ~r.ok /\ "error" \in DOMAIN r

C29_WorkspaceNeverPanics ==
    GitReturned("create_comparison_workspace") =>
        /\ "panic" \notin DOMAIN git_ret[1]
        /\ (RevParseRun /\ RevParseUnusable) =>
              /\ IsErrValue(git_ret[1])
              /\ git_fs.limpid # "fresh"

\* what the code does: an error when git cannot be started or prints bytes
\* that are not UTF-8, a panic when it prints fewer than 8 bytes, as it
\* does when it fails; the limpid worktree is not created in either case
C29_ShortHeadPanics ==
    (GitReturned("create_comparison_workspace") /\ RevParseRun) =>
        LET a == git_env.rev_parse
        IN  /\ "panic" \in DOMAIN git_ret[1]
                <=> (~a.spawn_failed /\ a.utf8 /\ Len(a.stdout) < HASH_PREFIX)
            /\ RevParseUnusable => git_fs.limpid # "fresh"

\* git rev-parse HEAD failed and printed nothing: the call panicked
C29_Witness ==
    /\ GitReturned("create_comparison_workspace")
    /\ ~git_env.rev_parse.spawn_failed /\ ~git_env.rev_parse.status_ok
    /\ git_env.rev_parse.stdout = <<>>
    /\ git_ret[1] = Panic("byte index out of range")
    /\ git_fs.facet = "fresh"

\* both worktrees were created
C29_OkWitness ==
    /\ GitReturned("create_comparison_workspace")
    /\ git_ret[1] = Ok(<<"facet", "limpid">>)
    /\ git_fs.facet = "fresh" /\ git_fs.limpid = "fresh"

(***************************************************************************)
(* C28: whenever main returns Ok, every directory the run created has been *)
(* removed: the target directory of the current build, the target          *)
(* directory of the main build, the comparison workspace and the facet and *)
(* limpid worktrees; in markdown mode and on the path where the manifest   *)
(* of the main branch is not found as well.                                *)
(***************************************************************************)
CreatedResources ==
    {"target_dir", "main_target_dir", "workspace_dir", "facet_worktree", "limpid_worktree"}

C28_EverythingRemovedOnOk ==
    EndedSuccessfully => fs \cap CreatedResources = {}

\* what main does: everything is removed unless the manifest of the main
\* branch was not found, where the workspace and the worktrees are left
C28_RemovedUnlessManifestMissing ==
    EndedSuccessfully =>
        fs = IF env.facet_repo /\ ~env.main_manifest
             THEN {"workspace_dir", "facet_worktree", "limpid_worktree"}
             ELSE {}

\* Ok on the path without the manifest: workspace and worktrees are left
C28_Witness ==
    /\ EndedSuccessfully
    /\ env.facet_repo /\ ~env.main_manifest
    /\ {"workspace_dir", "facet_worktree", "limpid_worktree"} \subseteq fs

\* Ok in markdown mode after the comparison: nothing is left
C28_MarkdownWitness ==
    /\ EndedSuccessfully
    /\ MarkdownWritten
    /\ fs = {}

(***************************************************************************)
(* C30: in each rendered table of generate_reports the diffs of the        *)
(* detailed rows plus the diff of the "additional ..." line (0 without     *)
(* one) add up to the sum over all names of current value minus baseline   *)
(* value: the split at the top N neither drops a changed entry nor counts  *)
(* one twice.                                                              *)
(***************************************************************************)
\* the diffs of the rows of a table, which render the first entries of the
\* delta list, plus the diff of its "additional ..." line
TableDiff(table, deltas) ==
    SumSeq([i \in 1..Len(table[1].rows) |-> deltas[i][2]])
    + (IF is_some(table[1].additional) THEN table[1].additional[1].diff ELSE 0)

TotalCrateDiff == SumValues([n \in AllCrateNames |-> CrateSize(current, n) - CrateSize(baseline, n)])

TotalSymDiff == SumValues([n \in AllSymNames |-> SymSize(current, n) - SymSize(baseline, n)])

TotalFnDiff(names) == SumValues([n \in names |-> FnLines(current, n) - FnLines(baseline, n)])

CratesAndSymbolsConserved ==
    /\ is_some(Report.crate_table) => TableDiff(Report.crate_table, CrateDeltas) = TotalCrateDiff
    /\ is_some(Report.symbol_table) => TableDiff(Report.symbol_table, SymDeltas) = TotalSymDiff

C30_ConservationOverAllNames ==
    Done =>
        /\ CratesAndSymbolsConserved
        /\ is_some(Report.fn_table) =>
              TableDiff(Report.fn_table, FnDeltas) = TotalFnDiff(AllFnNames)

\* what the code does: the function table leaves the autocfg_ probes out
C30_ConservationOverListedNames ==
    Done =>
        /\ CratesAndSymbolsConserved
        /\ is_some(Report.fn_table) =>
              TableDiff(Report.fn_table, FnDeltas) = TotalFnDiff(AllFnNames \ AutocfgNames)

\* three tables cut at the top N, with totals that are not zero
C30_Witness ==
    /\ Done
    /\ is_some(Report.crate_table) /\ is_some(Report.crate_table[1].additional)
    /\ is_some(Report.symbol_table) /\ is_some(Report.symbol_table[1].additional)
    /\ is_some(Report.fn_table) /\ is_some(Report.fn_table[1].additional)
    /\ TotalCrateDiff # 0 /\ TotalSymDiff # 0 /\ TotalFnDiff(AllFnNames \ AutocfgNames) # 0

\* a function table is rendered and an autocfg_ probe changed
C30_AutocfgWitness ==
    /\ Done
    /\ is_some(Report.fn_table)
    /\ TotalFnDiff(AutocfgNames \cap AllFnNames) # 0
    /\ TableDiff(Report.fn_table, FnDeltas) # TotalFnDiff(AllFnNames)

====
